---- MODULE Spec2Model ----
(***************************************************************************)
(* A model of the unifi_exporter collector/exporter core:                  *)
(*   - the Exporter (mutex, collector set, re-login on collector error),   *)
(*   - the StationCollector (const metrics pushed while collecting),       *)
(*   - the DeviceCollector (GaugeVec children set while collecting and     *)
(*     pushed after a successful sweep),                                   *)
(*   - the superseded Exporter that calls DeviceCollector.Collect.         *)
(***************************************************************************)
EXTENDS Integers, Sequences, FiniteSets, TLC

(***************************************************************************)
(* Bounds of the model.                                                    *)
(***************************************************************************)
NumProcs == 2      \* goroutines that call Describe / Collect concurrently
MaxClients == 2    \* successful re-logins after New that the model follows

Procs == 1..NumProcs

(***************************************************************************)
(* Configuration: the sites handed to New.  A description is a sequence    *)
(* of characters, so that siteDescription can be computed on it.           *)
(***************************************************************************)
Sites ==
  << [Name |-> "default", Description |-> <<"D", "e">>],
     [Name |-> "lab",     Description |-> <<"L", " ", "b">>] >>

NSites == Len(Sites)

(***************************************************************************)
(* Upstream records as the facade returns them (already decoded).          *)
(***************************************************************************)
dev1 ==
  [ID |-> "abc", Adopted |-> TRUE, Name |-> "ABC",
   NICs |-> << [MAC |-> "de:ad"] >>, Uptime |-> 10500,
   Stats |-> [TotalBytes |-> 100,
              All |-> [ReceiveBytes |-> 80, TransmitBytes |-> 20,
                       ReceivePackets |-> 4, TransmitPackets |-> 1,
                       TransmitDropped |-> 1],
              Uplink |-> [ReceiveBytes |-> 20, TransmitBytes |-> 10,
                          ReceivePackets |-> 2, TransmitPackets |-> 1]],
   Radios |-> << [Name |-> "wifi0", Radio |-> "2.4GHz",
                  Stats |-> [NumberStations |-> 3, NumberUserStations |-> 2,
                             NumberGuestStations |-> 1]] >>]

dev2 ==
  [ID |-> "def", Adopted |-> FALSE, Name |-> "DEF",
   NICs |-> << [MAC |-> "be:ef"] >>, Uptime |-> 20000,
   Stats |-> [TotalBytes |-> 200,
              All |-> [ReceiveBytes |-> 160, TransmitBytes |-> 40,
                       ReceivePackets |-> 8, TransmitPackets |-> 2,
                       TransmitDropped |-> 2],
              Uplink |-> [ReceiveBytes |-> 40, TransmitBytes |-> 20,
                          ReceivePackets |-> 4, TransmitPackets |-> 2]],
   Radios |-> << >>]

DeviceLists == { << >>, <<dev1, dev2>> }

sta1 ==
  [ID |-> "abcdef", APMAC |-> "a0:a0", MAC |-> "de:ad", Name |-> "",
   Hostname |-> "foo", RSSI |-> 40, Noise |-> 90,
   Stats |-> [ReceiveBytes |-> 10, TransmitBytes |-> 20,
              ReceivePackets |-> 1, TransmitPackets |-> 2]]

sta2 ==
  [ID |-> "123456", APMAC |-> "", MAC |-> "be:ef", Name |-> "bar",
   Hostname |-> "baz", RSSI |-> 0, Noise |-> 0,
   Stats |-> [ReceiveBytes |-> 100, TransmitBytes |-> 200,
              ReceivePackets |-> 10, TransmitPackets |-> 20]]

StationLists == { << >>, <<sta1, sta2>> }

(***************************************************************************)
(* What one facade call (Client.Devices, Client.Stations) returns: a list  *)
(* and a nil error, or an error.  The error is an authentication failure   *)
(* (HTTP 401) or any other failure; the callers only test err != nil.      *)
(***************************************************************************)
ErrKinds == {"auth", "other"}

Ok(list) == [err |-> "nil", data |-> list]
Fail(kind) == [err |-> kind, data |-> << >>]

DevicesResults == {Ok(l) : l \in DeviceLists} \cup {Fail(k) : k \in ErrKinds}
StationsResults == {Ok(l) : l \in StationLists} \cup {Fail(k) : k \in ErrKinds}

\* The facade results of one sweep over the sites: the sweep stops at the
\* first failing call, so a trace is successes followed by at most one
\* failure, and is complete (NSites calls) when no call failed.
IsSweep(rs) ==
  /\ Len(rs) >= 1
  /\ \A i \in 1..(Len(rs) - 1) : rs[i].err = "nil"
  /\ (rs[Len(rs)].err = "nil" => Len(rs) = NSites)

Sweeps(results) ==
  {rs \in UNION {[1..n -> results] : n \in 1..NSites} : IsSweep(rs)}

SweepErr(rs) == rs[Len(rs)].err

(***************************************************************************)
(* siteDescription: lower-case the description, then drop ' ', '-', '_'    *)
(* and '.'.                                                                *)
(***************************************************************************)
ToLower(ch) ==
  CASE ch = "D" -> "d"
    [] ch = "L" -> "l"
    [] ch = "E" -> "e"
    [] ch = "B" -> "b"
    [] ch = "F" -> "f"
    [] ch = "Eacute" -> "eacute"
    [] OTHER -> ch

\* siteDescription as it would be if it kept the full stops.
RECURSIVE siteDescriptionKeepsStops(_)
siteDescriptionKeepsStops(desc) ==
  IF desc = << >> THEN << >>
  ELSE LET r == ToLower(Head(desc))
           rest == siteDescriptionKeepsStops(Tail(desc))
       IN IF r \in {" ", "-", "_"} THEN rest ELSE <<r>> \o rest

RECURSIVE siteDescription(_)
siteDescription(desc) ==
  IF desc = << >> THEN << >>
  ELSE LET r == ToLower(Head(desc))
           rest == siteDescription(Tail(desc))
       IN IF r \in {" ", "-", "_", "."} THEN rest ELSE <<r>> \o rest

(***************************************************************************)
(* Metrics.  A sample is a descriptor name, the label values and a value;  *)
(* NewInvalidMetric gives a placeholder that carries the descriptor and    *)
(* the error.  What a collector pushes in one send is a batch: one metric  *)
(* for a const metric; for GaugeVec.Collect the children of the vector,    *)
(* which it pushes in the iteration order of a Go map, that is in no       *)
(* specified order.                                                        *)
(***************************************************************************)
Sample(desc, labels, value) ==
  [desc |-> desc, labels |-> labels, value |-> value, valid |-> TRUE,
   err |-> "nil"]

NewInvalidMetric(desc, err) ==
  [desc |-> desc, labels |-> << >>, value |-> 0, valid |-> FALSE,
   err |-> err]

Push(coll, metrics) == [coll |-> coll, samples |-> metrics]

\* time.Second, in the unit the model counts durations in (milliseconds).
Second == 1000

(***************************************************************************)
(* DeviceCollector.                                                        *)
(***************************************************************************)
\* DeviceCollector.collectors(): the GaugeVecs in the order they are
\* described and collected.
DeviceDescs ==
  << "unifi_devices_total", "unifi_devices_adopted",
     "unifi_devices_unadopted", "unifi_devices_uptime_seconds",
     "unifi_devices_wireless_total_bytes",
     "unifi_devices_wireless_received_bytes",
     "unifi_devices_wireless_transmitted_bytes",
     "unifi_devices_wireless_received_packets",
     "unifi_devices_wireless_transmitted_packets",
     "unifi_devices_wireless_transmitted_dropped",
     "unifi_devices_wired_received_bytes",
     "unifi_devices_wired_transmitted_bytes",
     "unifi_devices_wired_received_packets",
     "unifi_devices_wired_transmitted_packets",
     "unifi_devices_stations_total", "unifi_devices_stations_user",
     "unifi_devices_stations_guest" >>

\* GaugeVec.WithLabelValues(labels...).Set(value): the child with these
\* label values is created if absent and takes the value; no child is ever
\* deleted.
GaugeSet(g, s) ==
  {x \in g : ~(x.desc = s.desc /\ x.labels = s.labels)} \cup {s}

\* The children after the Set calls ups[1], ups[2], ... made in this order
\* on the children g: a child that no call names keeps its value, a child
\* that calls name has the value of the last of them.
GaugeSetAll(g, ups) ==
  LET Same(a, b) == a.desc = b.desc /\ a.labels = b.labels
  IN {x \in g : \A i \in DOMAIN ups : ~Same(x, ups[i])}
     \cup {ups[i] : i \in {j \in DOMAIN ups :
                             \A k \in DOMAIN ups :
                               k > j => ~Same(ups[j], ups[k])}}

RECURSIVE CountAdopted(_)
CountAdopted(devices) ==
  IF devices = << >> THEN 0
  ELSE (IF Head(devices).Adopted THEN 1 ELSE 0) + CountAdopted(Tail(devices))

RECURSIVE CountUnadopted(_)
CountUnadopted(devices) ==
  IF devices = << >> THEN 0
  ELSE (IF Head(devices).Adopted THEN 0 ELSE 1)
       + CountUnadopted(Tail(devices))

\* collectDeviceAdoptions as it would be if every device were counted as
\* unadopted.
collectDeviceAdoptionsNoElse(siteLabel, devices) ==
  << Sample("unifi_devices_adopted", <<siteLabel>>, CountAdopted(devices)),
     Sample("unifi_devices_unadopted", <<siteLabel>>, Len(devices)) >>

collectDeviceAdoptions(siteLabel, devices) ==
  << Sample("unifi_devices_adopted", <<siteLabel>>, CountAdopted(devices)),
     Sample("unifi_devices_unadopted", <<siteLabel>>,
            CountUnadopted(devices)) >>

DeviceLabels(siteLabel, d) == <<siteLabel, d.ID, d.NICs[1].MAC, d.Name>>

RECURSIVE collectDeviceUptime(_, _)
collectDeviceUptime(siteLabel, devices) ==
  IF devices = << >> THEN << >>
  ELSE LET d == Head(devices)
       IN << Sample("unifi_devices_uptime_seconds",
                    DeviceLabels(siteLabel, d), d.Uptime \div Second) >>
          \o collectDeviceUptime(siteLabel, Tail(devices))

RECURSIVE collectDeviceBytes(_, _)
collectDeviceBytes(siteLabel, devices) ==
  IF devices = << >> THEN << >>
  ELSE LET d == Head(devices)
           labels == DeviceLabels(siteLabel, d)
       IN << Sample("unifi_devices_wireless_total_bytes", labels,
                    d.Stats.TotalBytes),
             Sample("unifi_devices_wireless_received_bytes", labels,
                    d.Stats.All.ReceiveBytes),
             Sample("unifi_devices_wireless_transmitted_bytes", labels,
                    d.Stats.All.TransmitBytes),
             Sample("unifi_devices_wireless_received_packets", labels,
                    d.Stats.All.ReceivePackets),
             Sample("unifi_devices_wireless_transmitted_packets", labels,
                    d.Stats.All.TransmitPackets),
             Sample("unifi_devices_wireless_transmitted_dropped", labels,
                    d.Stats.All.TransmitDropped),
             Sample("unifi_devices_wired_received_bytes", labels,
                    d.Stats.Uplink.ReceiveBytes),
             Sample("unifi_devices_wired_transmitted_bytes", labels,
                    d.Stats.Uplink.TransmitBytes),
             Sample("unifi_devices_wired_received_packets", labels,
                    d.Stats.Uplink.ReceivePackets),
             Sample("unifi_devices_wired_transmitted_packets", labels,
                    d.Stats.Uplink.TransmitPackets) >>
          \o collectDeviceBytes(siteLabel, Tail(devices))

RECURSIVE RadioStations(_, _)
RadioStations(labels, radios) ==
  IF radios = << >> THEN << >>
  ELSE LET r == Head(radios)
           llabels == labels \o <<r.Name, r.Radio>>
       IN << Sample("unifi_devices_stations_total", llabels,
                    r.Stats.NumberStations),
             Sample("unifi_devices_stations_user", llabels,
                    r.Stats.NumberUserStations),
             Sample("unifi_devices_stations_guest", llabels,
                    r.Stats.NumberGuestStations) >>
          \o RadioStations(labels, Tail(radios))

RECURSIVE collectDeviceStations(_, _)
collectDeviceStations(siteLabel, devices) ==
  IF devices = << >> THEN << >>
  ELSE RadioStations(DeviceLabels(siteLabel, Head(devices)),
                     Head(devices).Radios)
       \o collectDeviceStations(siteLabel, Tail(devices))

\* The body of the loop of DeviceCollector.collect for one site whose list
\* was fetched: the gauges set, in program order.
DeviceSiteGauges(s, devices) ==
  LET siteLabel == siteDescription(s.Description)
  IN << Sample("unifi_devices_total", <<siteLabel>>, Len(devices)) >>
     \o collectDeviceAdoptions(siteLabel, devices)
     \o collectDeviceUptime(siteLabel, devices)
     \o collectDeviceBytes(siteLabel, devices)
     \o collectDeviceStations(siteLabel, devices)

\* DeviceCollector.collect on gauge children g, where rs[i] is what
\* Client.Devices returns for site i: the children after the sweep.  The
\* sweep returns at the first failing fetch and keeps what it has set.
RECURSIVE DeviceCollectOn(_, _, _, _)
DeviceCollectOn(sites, g, rs, i) ==
  IF i > Len(rs) \/ rs[i].err # "nil" THEN g
  ELSE DeviceCollectOn(
         sites, GaugeSetAll(g, DeviceSiteGauges(sites[i], rs[i].data)), rs,
         i + 1)

\* The sweep of the collector that New and initClient build, which is
\* bound to the configured sites.
DeviceCollectFrom(g, rs, i) == DeviceCollectOn(Sites, g, rs, i)

DeviceCollect(g, rs) == DeviceCollectFrom(g, rs, 1)

\* for _, m := range c.collectors() { m.Collect(ch) }: one batch for each
\* GaugeVec, holding all its children.
DeviceEmit(g) ==
  [i \in 1..Len(DeviceDescs) |->
     Push("device", {s \in g : s.desc = DeviceDescs[i]})]

(***************************************************************************)
(* StationCollector.                                                       *)
(***************************************************************************)
\* StationDescs as it would be if Describe left out the signal descriptors.
StationDescsNoSignal ==
  << "unifi_stations", "unifi_stations_received_bytes_total",
     "unifi_stations_transmitted_bytes_total",
     "unifi_stations_received_packets_total",
     "unifi_stations_transmitted_packets_total" >>

\* StationCollector.Describe: the descriptors in the order they are sent.
StationDescs ==
  << "unifi_stations", "unifi_stations_received_bytes_total",
     "unifi_stations_transmitted_bytes_total",
     "unifi_stations_received_packets_total",
     "unifi_stations_transmitted_packets_total",
     "unifi_stations_rssi_dbm", "unifi_stations_noise_dbm" >>

\* hostName as it would be if the label were always the host-provided name.
hostNameOnly(s) == s.Hostname

\* hostName: the UniFi-set name if there is one, else the host-provided
\* name.
hostName(s) == IF s.Name # "" THEN s.Name ELSE s.Hostname

StationLabels(siteLabel, s) ==
  <<siteLabel, s.ID, s.APMAC, s.MAC, hostName(s)>>

RECURSIVE collectStationBytes(_, _)
collectStationBytes(siteLabel, stations) ==
  IF stations = << >> THEN << >>
  ELSE LET s == Head(stations)
           labels == StationLabels(siteLabel, s)
       IN << Sample("unifi_stations_received_bytes_total", labels,
                    s.Stats.ReceiveBytes),
             Sample("unifi_stations_transmitted_bytes_total", labels,
                    s.Stats.TransmitBytes),
             Sample("unifi_stations_received_packets_total", labels,
                    s.Stats.ReceivePackets),
             Sample("unifi_stations_transmitted_packets_total", labels,
                    s.Stats.TransmitPackets) >>
          \o collectStationBytes(siteLabel, Tail(stations))

\* collectStationSignal as it would be if it did not skip the stations
\* without AP MAC.
RECURSIVE collectStationSignalAlways(_, _)
collectStationSignalAlways(siteLabel, stations) ==
  IF stations = << >> THEN << >>
  ELSE LET s == Head(stations)
           labels == StationLabels(siteLabel, s)
       IN << Sample("unifi_stations_rssi_dbm", labels, s.RSSI),
             Sample("unifi_stations_noise_dbm", labels, s.Noise) >>
          \o collectStationSignalAlways(siteLabel, Tail(stations))

RECURSIVE collectStationSignal(_, _)
collectStationSignal(siteLabel, stations) ==
  IF stations = << >> THEN << >>
  ELSE LET s == Head(stations)
           labels == StationLabels(siteLabel, s)
       IN (IF s.APMAC = "" THEN << >>
           ELSE << Sample("unifi_stations_rssi_dbm", labels, s.RSSI),
                   Sample("unifi_stations_noise_dbm", labels, s.Noise) >>)
          \o collectStationSignal(siteLabel, Tail(stations))

\* The body of the loop of StationCollector.collect for one site whose list
\* was fetched: the metrics sent, in program order.
StationSiteMetrics(s, stations) ==
  << Sample("unifi_stations", <<s.Description>>, Len(stations)) >>
  \o collectStationBytes(s.Description, stations)
  \o collectStationSignal(s.Description, stations)

\* StationCollectOn as it would be if the loop went on with the next site
\* after a fetch error.
RECURSIVE StationCollectOnContinues(_, _, _)
StationCollectOnContinues(sites, rs, i) ==
  IF i > Len(rs) THEN << >>
  ELSE (IF rs[i].err # "nil" THEN << >>
        ELSE StationSiteMetrics(sites[i], rs[i].data))
       \o StationCollectOnContinues(sites, rs, i + 1)

\* StationCollectOn as it would be if the count sample were sent before the
\* error of the fetch is tested.
RECURSIVE StationCollectOnCountFirst(_, _, _)
StationCollectOnCountFirst(sites, rs, i) ==
  IF i > Len(rs) THEN << >>
  ELSE IF rs[i].err # "nil"
  THEN << Sample("unifi_stations", <<sites[i].Description>>, 0) >>
  ELSE StationSiteMetrics(sites[i], rs[i].data)
       \o StationCollectOnCountFirst(sites, rs, i + 1)

\* StationCollector.collect, where rs[i] is what Client.Stations returns
\* for site i: the metrics sent before it returns.
RECURSIVE StationCollectOn(_, _, _)
StationCollectOn(sites, rs, i) ==
  IF i > Len(rs) \/ rs[i].err # "nil" THEN << >>
  ELSE StationSiteMetrics(sites[i], rs[i].data)
       \o StationCollectOn(sites, rs, i + 1)

\* The sweep of the collector that initClient builds, which is bound to the
\* configured sites.
StationCollectFrom(rs, i) == StationCollectOn(Sites, rs, i)

StationCollect(rs) == StationCollectFrom(rs, 1)

\* StationCollector.CollectError: what is sent on ch.  On an error of
\* collect the placeholder follows what collect has sent already.
StationCollectError(rs) ==
  LET sent == StationCollect(rs)
      all == IF SweepErr(rs) = "nil" THEN sent
             ELSE Append(sent,
                         NewInvalidMetric("unifi_stations", SweepErr(rs)))
  IN [i \in 1..Len(all) |-> Push("station", {all[i]})]

\* DeviceCollector.Describe / StationCollector.Describe: the descriptors
\* sent, in order.
CollectorDescribe(cc) ==
  IF cc.kind = "device" THEN DeviceDescs ELSE StationDescs

RECURSIVE DescribeAll(_)
DescribeAll(ccs) ==
  IF ccs = << >> THEN << >>
  ELSE CollectorDescribe(Head(ccs)) \o DescribeAll(Tail(ccs))

\* The variable labels a descriptor is built with (labelsSiteOnly,
\* labelsDevice, labelsDeviceStations, labelsStation), and the descriptor
\* as the registry sees it: the name and the label names.
LabelNames(desc) ==
  IF desc \in {"unifi_devices_total", "unifi_devices_adopted",
               "unifi_devices_unadopted", "unifi_stations"}
  THEN <<"site">>
  ELSE IF desc \in {"unifi_devices_stations_total",
                    "unifi_devices_stations_user",
                    "unifi_devices_stations_guest"}
  THEN <<"site", "id", "mac", "name", "interface", "radio">>
  ELSE IF \E i \in DOMAIN DeviceDescs : DeviceDescs[i] = desc
  THEN <<"site", "id", "mac", "name">>
  ELSE <<"site", "id", "ap_mac", "station_mac", "hostname">>

Descriptor(desc) == [fqName |-> desc, labels |-> LabelNames(desc)]

(***************************************************************************)
(* The facade's decoding of the controller's answers, and the answers a    *)
(* collector called on its own is given.                                   *)
(***************************************************************************)
MaxDevices == 2    \* devices in one answer of the controller
MaxStations == 2   \* stations in one answer of the controller

\* net.ParseMAC, with a hardware address written as its String(): the
\* canonical lower-case form, "" for the nil address of a failed parse.
ValidMACs == {"de:ad", "be:ef", "a0:a0"}

ParseMAC(s) ==
  IF s \in ValidMACs THEN [err |-> "nil", hw |-> s]
  ELSE IF s = "DE-AD" THEN [err |-> "nil", hw |-> "de:ad"]
  ELSE [err |-> "other", hw |-> ""]

\* net.ParseIP: nil for a string that is no IP address.
ParseIP(s) == IF s = "10.0.0.1" THEN [nil |-> FALSE, ip |-> s]
              ELSE [nil |-> TRUE, ip |-> ""]

\* A nil *RadioStationsStats, and the test for it.
NilStats == << >>
IsNil(ptr) == DOMAIN ptr = {}

\* A device as the controller sends it (the unexported type device): n
\* scales its counters.
RawDevice(id, adopted, name, macs, radios, n) ==
  [ID |-> id, Adopted |-> adopted, Name |-> name, EthernetTable |-> macs,
   RadioTable |-> radios, Uptime |-> 10 * n, InformIP |-> "10.0.0.1",
   NaNumSta |-> 6 * n, NaUserNumSta |-> 4 * n, NaGuestNumSta |-> 2 * n,
   NgNumSta |-> 3 * n, NgUserNumSta |-> 2 * n, NgGuestNumSta |-> n,
   Stat |-> [Bytes |-> 100 * n, RxBytes |-> 80 * n, TxBytes |-> 20 * n,
             RxPackets |-> 4 * n, TxPackets |-> n, TxDropped |-> n,
             UplinkRxBytes |-> 20 * n, UplinkTxBytes |-> 10 * n,
             UplinkRxPackets |-> 2 * n, UplinkTxPackets |-> n]]

RawDevices ==
  { RawDevice("abc", TRUE, "ABC", <<"DE-AD">>,
              << [Name |-> "wifi0", Radio |-> "ng"],
                 [Name |-> "wifi1", Radio |-> "na"] >>, 1),
    RawDevice("def", FALSE, "DEF", <<"be:ef">>, << >>, 2),
    RawDevice("ghi", TRUE, "GHI", <<"a0:a0">>,
              << [Name |-> "wifi0", Radio |-> "ad"] >>, 3),
    RawDevice("jkl", FALSE, "JKL", << >>, << >>, 4),
    RawDevice("mno", TRUE, "MNO", <<"zz">>, << >>, 5),
    [RawDevice("pqr", TRUE, "PQR", <<"de:ad">>, << >>, 6)
       EXCEPT !.InformIP = ""] }

\* The radio table loop of Device.UnmarshalJSON: a radio code other than
\* "na" and "ng" leaves Radio empty and Stats nil.
UnmarshalRadio(raw, rt) ==
  [Name |-> rt.Name,
   Radio |-> CASE rt.Radio = "na" -> "5GHz"
               [] rt.Radio = "ng" -> "2.4GHz"
               [] OTHER -> "",
   Stats |-> CASE rt.Radio = "na" ->
                    [NumberStations |-> raw.NaNumSta,
                     NumberUserStations |-> raw.NaUserNumSta,
                     NumberGuestStations |-> raw.NaGuestNumSta]
               [] rt.Radio = "ng" ->
                    [NumberStations |-> raw.NgNumSta,
                     NumberUserStations |-> raw.NgUserNumSta,
                     NumberGuestStations |-> raw.NgGuestNumSta]
               [] OTHER -> NilStats]

\* Device.UnmarshalJSON: an error for an inform IP that does not parse or
\* an ethernet table entry whose MAC does not parse; otherwise the Device,
\* with one NIC for each entry of the ethernet table (none for an empty
\* table).
UnmarshalDevice(raw) ==
  LET macs == [i \in DOMAIN raw.EthernetTable |->
                 ParseMAC(raw.EthernetTable[i])]
  IN IF ParseIP(raw.InformIP).nil THEN [err |-> "other"]
     ELSE IF \E i \in DOMAIN macs : macs[i].err # "nil"
     THEN [err |-> "other"]
     ELSE [err |-> "nil",
           dev |->
             [ID |-> raw.ID, Adopted |-> raw.Adopted, Name |-> raw.Name,
              NICs |-> [i \in DOMAIN macs |-> [MAC |-> macs[i].hw]],
              Uptime |-> raw.Uptime * Second,
              Stats |->
                [TotalBytes |-> raw.Stat.Bytes,
                 All |-> [ReceiveBytes |-> raw.Stat.RxBytes,
                          TransmitBytes |-> raw.Stat.TxBytes,
                          ReceivePackets |-> raw.Stat.RxPackets,
                          TransmitPackets |-> raw.Stat.TxPackets,
                          TransmitDropped |-> raw.Stat.TxDropped],
                 Uplink |-> [ReceiveBytes |-> raw.Stat.UplinkRxBytes,
                             TransmitBytes |-> raw.Stat.UplinkTxBytes,
                             ReceivePackets |-> raw.Stat.UplinkRxPackets,
                             TransmitPackets |-> raw.Stat.UplinkTxPackets]],
              Radios |-> [i \in DOMAIN raw.RadioTable |->
                            UnmarshalRadio(raw, raw.RadioTable[i])]]]

\* A station as the controller sends it (the unexported type station).
RawStation(id, apMac, mac, wired, name, hostname, n) ==
  [ID |-> id, ApMac |-> apMac, Mac |-> mac, IsWired |-> wired,
   Name |-> name, Hostname |-> hostname, RSSI |-> 40 * n, Noise |-> 90 * n,
   RxBytes |-> 10 * n, TxBytes |-> 20 * n, RxPackets |-> n,
   TxPackets |-> 2 * n]

RawStations ==
  { RawStation("abcdef", "a0:a0", "DE-AD", FALSE, "", "foo", 1),
    RawStation("123456", "", "be:ef", TRUE, "bar", "baz", 2),
    RawStation("fedcba", "", "de:ad", FALSE, "", "qux", 3),
    RawStation("654321", "a0:a0", "be:ef", FALSE, "nas", "", 4) }

\* Station.UnmarshalJSON: the AP MAC of a wired station need not parse (it
\* is then nil); any other MAC that does not parse is an error.
UnmarshalStation(raw) ==
  LET apMAC == ParseMAC(raw.ApMac)
      mac == ParseMAC(raw.Mac)
  IN IF ~raw.IsWired /\ apMAC.err # "nil" THEN [err |-> "other"]
     ELSE IF mac.err # "nil" THEN [err |-> "other"]
     ELSE [err |-> "nil",
           sta |->
             [ID |-> raw.ID, APMAC |-> apMAC.hw, MAC |-> mac.hw,
              Name |-> raw.Name, Hostname |-> raw.Hostname,
              RSSI |-> raw.RSSI, Noise |-> raw.Noise,
              Stats |-> [ReceiveBytes |-> raw.RxBytes,
                         TransmitBytes |-> raw.TxBytes,
                         ReceivePackets |-> raw.RxPackets,
                         TransmitPackets |-> raw.TxPackets]]]

\* The lists of at most n different elements of S: an answer of the
\* controller names no device or station twice.
InjectiveSeqs(S, n) ==
  {q \in UNION {[1..k -> S] : k \in 0..n} :
     \A i, j \in DOMAIN q : i # j => q[i] # q[j]}

\* What the controller answers to one request: a transport or HTTP failure,
\* or a body.
Answers(lists) ==
  {[fail |-> "nil", body |-> l] : l \in lists}
  \cup {[fail |-> k, body |-> << >>] : k \in ErrKinds}

DeviceAnswers == Answers(InjectiveSeqs(RawDevices, MaxDevices))
StationAnswers == Answers(InjectiveSeqs(RawStations, MaxStations))

\* Client.Devices / Client.Stations on an answer: the error of the request,
\* or of the first record that does not decode, or the decoded list.
ClientDevices(answer) ==
  LET ds == [i \in DOMAIN answer.body |-> UnmarshalDevice(answer.body[i])]
  IN IF answer.fail # "nil" THEN Fail(answer.fail)
     ELSE IF \E i \in DOMAIN ds : ds[i].err # "nil" THEN Fail("other")
     ELSE Ok([i \in DOMAIN ds |-> ds[i].dev])

ClientStations(answer) ==
  LET ss == [i \in DOMAIN answer.body |-> UnmarshalStation(answer.body[i])]
  IN IF answer.fail # "nil" THEN Fail(answer.fail)
     ELSE IF \E i \in DOMAIN ss : ss[i].err # "nil" THEN Fail("other")
     ELSE Ok([i \in DOMAIN ss |-> ss[i].sta])

\* The site lists a collector called on its own is built with: the
\* configured sites, and two sites whose descriptions differ in a space.
SiteConfigs ==
  { Sites,
    << [Name |-> "lab1", Description |-> <<"L", "b">>],
       [Name |-> "lab2", Description |-> <<"L", " ", "b">>] >> }

\* How the body of the loop of DeviceCollector.collect ends for a fetched
\* list: d.NICs[0] of a device without NIC is an index out of range (the
\* uptime loop reads it for every device before any radio is read),
\* r.Stats.NumberStations of a radio with nil Stats is a nil dereference.
SitePanic(devices) ==
  IF \E i \in DOMAIN devices : Len(devices[i].NICs) = 0
  THEN "index out of range"
  ELSE IF \E i \in DOMAIN devices :
            \E k \in DOMAIN devices[i].Radios :
              IsNil(devices[i].Radios[k].Stats)
  THEN "nil dereference"
  ELSE "none"

\* The first site of the sweep rs whose loop body panics, 0 if none does.
PanicSite(rs) ==
  LET bad == {i \in DOMAIN rs :
                rs[i].err = "nil" /\ SitePanic(rs[i].data) # "none"}
  IN IF bad = {} THEN 0 ELSE CHOOSE i \in bad : \A k \in bad : i <= k

\* DeviceCollector.collect on fresh GaugeVecs, followed when it returns nil
\* by the sends of DeviceCollector.Collect: how collect ends ("ok", "err"
\* for an error returned, "panic"), the gauges each fetched site has set,
\* and what is sent.
DeviceCollectorRun(sites, rs) ==
  IF PanicSite(rs) # 0
  THEN [outcome |-> "panic", sets |-> << >>, out |-> << >>]
  ELSE [outcome |-> IF SweepErr(rs) = "nil" THEN "ok" ELSE "err",
        sets |-> [i \in {k \in DOMAIN rs : rs[k].err = "nil"} |->
                    DeviceSiteGauges(sites[i], rs[i].data)],
        out |-> IF SweepErr(rs) = "nil"
                THEN DeviceEmit(DeviceCollectOn(sites, {}, rs, 1))
                ELSE << >>]

\* The sites for which StationCollector.collect calls c.c.Stations, rs[i]
\* being what the facade returns for site i when it is asked: the loop
\* returns at the first error.
RECURSIVE StationFetches(_, _)
StationFetches(rs, i) ==
  IF i > Len(rs) THEN << >>
  ELSE <<i>> \o (IF rs[i].err # "nil" THEN << >>
                 ELSE StationFetches(rs, i + 1))

\* The results of the fetches the sweep has made.
FetchesMade(rs) == [i \in 1..Len(StationFetches(rs, 1)) |-> rs[i]]

\* StationCollector.CollectError: how it ends, the sites it has fetched,
\* the metrics each fetched site has sent, and all it has sent, the
\* placeholder included.
StationCollectorRun(sites, rs) ==
  LET sent == StationCollectOn(sites, rs, 1)
      made == FetchesMade(rs)
  IN [outcome |-> IF SweepErr(made) = "nil" THEN "ok" ELSE "err",
      fetches |-> StationFetches(rs, 1),
      sets |-> [i \in {k \in DOMAIN made : made[k].err = "nil"} |->
                  StationSiteMetrics(sites[i], made[i].data)],
      out |-> IF SweepErr(made) = "nil" THEN sent
              ELSE Append(sent,
                          NewInvalidMetric("unifi_stations",
                                           SweepErr(made)))]

(***************************************************************************)
(* pickSites of the command: the sites the Exporter is built with, chosen  *)
(* by description from the sites the controller lists.                     *)
(***************************************************************************)
MaxPickSites == 3   \* sites the controller lists

\* The sites the controller may list: two of them have the same
\* description, and descriptions differ in case or in a space only.
ListedSites ==
  { [Name |-> "s1", Description |-> <<"D", "e">>],
    [Name |-> "s2", Description |-> <<"d", "e">>],
    [Name |-> "s3", Description |-> <<"D", "e">>],
    [Name |-> "s4", Description |-> <<"L", " ", "b">>] }

\* The values of the configuration's site key: none, a description, a
\* description in another case, a description without its space.
SiteChoices ==
  { << >>, <<"D", "e">>, <<"d", "e">>, <<"L", " ", "b">>, <<"L", "b">>,
    <<"l", " ", "b">> }

\* pickSites as it would be if it compared the normalised descriptions.
pickSitesNormalised(choose, sites) ==
  IF choose = << >> THEN [err |-> "nil", sites |-> sites]
  ELSE LET hits == {i \in DOMAIN sites :
                      siteDescription(sites[i].Description)
                        = siteDescription(choose)}
       IN IF hits = {} THEN [err |-> "not found", sites |-> << >>]
          ELSE [err |-> "nil",
                sites |-> << sites[CHOOSE i \in hits :
                                     \A k \in hits : i <= k] >>]

\* pickSites: all sites for an empty choice; otherwise the loop stops at
\* the first site whose Description == choose, and a nil pick is an error.
pickSites(choose, sites) ==
  IF choose = << >> THEN [err |-> "nil", sites |-> sites]
  ELSE LET hits == {i \in DOMAIN sites : sites[i].Description = choose}
       IN IF hits = {} THEN [err |-> "not found", sites |-> << >>]
          ELSE [err |-> "nil",
                sites |-> << sites[CHOOSE i \in hits :
                                     \A k \in hits : i <= k] >>]

(***************************************************************************)
(* The descriptions siteDescription is called on: those of its test, and   *)
(* every string of a few characters, among them upper-case letters (one    *)
(* outside ASCII, written "Eacute"), a digit and the four characters that  *)
(* are dropped.                                                            *)
(***************************************************************************)
MaxDescLen == 3   \* characters of an enumerated description

DescChars == {"F", "o", "B", "z", "Eacute", "1", " ", "-", "_", "."}

TestDescriptions ==
  { <<"F", "o", "o", " ", "B", "a", "r">>,
    <<"F", "o", "o", "-", "B", "a", "r", "_", "B", "a", "z">>,
    <<"F", "o", "o", " ", "b", "a", "r", " ", " ", "B", "a", "z", " ", "-",
       " ", "_", " ", ".", "q", "u", "x">> }

Descriptions ==
  TestDescriptions \cup UNION {[1..n -> DescChars] : n \in 0..MaxDescLen}

(***************************************************************************)
(* State.                                                                  *)
(***************************************************************************)
VARIABLES
  mu,          \* Exporter.mu: TRUE when locked
  collectors,  \* Exporter.collectors: the collectors and the client each
               \* is bound to
  gauges,      \* the GaugeVec children of the device collector in collectors
  clients,     \* how many clients clientFn has returned; the latest one's id
  alive,       \* TRUE while the process serves an Exporter: from the return
               \* of New until log.Fatalf ends the process
  pc,          \* where each goroutine is in Describe / Collect
  rng,         \* the slice a goroutine's range loop iterates
  idx,         \* the position of the range loop
  out,         \* what the goroutine's call has sent on ch so far (Collect)
  dout,        \* what the goroutine's call has sent on ch so far (Describe)
  calls,       \* the collector calls of the goroutine's Collect so far
  logins,      \* the results of clientFn in the goroutine's Collect so far
  built,       \* the collector sets the goroutine's Collect has assigned
  lastLogin,   \* the result of the latest call of clientFn
  job,         \* a collector called on its own: its sites and facade results
  result       \* what that call has done: how it ended and what it sent

vars ==
  <<mu, collectors, gauges, clients, alive, pc, rng, idx, out, dout, calls,
    logins, built, lastLogin, job, result>>

\* The state of the Exporter, and that of a collector called on its own.
exporterVars ==
  <<mu, collectors, gauges, clients, alive, pc, rng, idx, out, dout, calls,
    logins, built, lastLogin>>

collectorVars == <<job, result>>

NoJob == [op |-> "none"]
NoResult == [outcome |-> "none"]

\* The locals of a goroutine's call, which end with the call.
locals == <<rng, idx, out, dout, calls, logins, built>>

ClearLocals(p) ==
  /\ rng' = [rng EXCEPT ![p] = << >>]
  /\ idx' = [idx EXCEPT ![p] = 0]
  /\ out' = [out EXCEPT ![p] = << >>]
  /\ dout' = [dout EXCEPT ![p] = << >>]
  /\ calls' = [calls EXCEPT ![p] = << >>]
  /\ logins' = [logins EXCEPT ![p] = << >>]
  /\ built' = [built EXCEPT ![p] = << >>]

\* NewCollectors as it would be if initClient built the station collector
\* in New only.
NewCollectorsDeviceOnly(c) ==
  IF c = 1
  THEN << [kind |-> "device", client |-> c],
          [kind |-> "station", client |-> c] >>
  ELSE << [kind |-> "device", client |-> c] >>

\* The collector set initClient builds around client c.
NewCollectors(c) ==
  << [kind |-> "device", client |-> c], [kind |-> "station", client |-> c] >>

\* New: initClient has succeeded once, with the first client.
Init ==
  /\ mu = FALSE
  /\ collectors = NewCollectors(1)
  /\ gauges = {}
  /\ clients = 1
  /\ alive = TRUE
  /\ pc = [p \in Procs |-> "idle"]
  /\ rng = [p \in Procs |-> << >>]
  /\ idx = [p \in Procs |-> 0]
  /\ out = [p \in Procs |-> << >>]
  /\ dout = [p \in Procs |-> << >>]
  /\ calls = [p \in Procs |-> << >>]
  /\ logins = [p \in Procs |-> << >>]
  /\ built = [p \in Procs |-> << >>]
  /\ lastLogin = "ok"
  /\ job = NoJob
  /\ result = NoResult

\* CanLock as it would be if Lock did not wait for the mutex.
CanLockAlways(m) == m \in BOOLEAN

\* sync.Mutex.Lock returns only when the mutex is unlocked.
CanLock(m) == m = FALSE

(***************************************************************************)
(* Exporter.Describe.                                                      *)
(***************************************************************************)
DescribeCall(p) ==
  /\ alive /\ pc[p] = "idle"
  /\ pc' = [pc EXCEPT ![p] = "dLock"]
  /\ UNCHANGED collectorVars
  /\ UNCHANGED <<mu, collectors, gauges, clients, alive, locals, lastLogin>>

\* DescribeLock as it would be if Describe did not take the mutex.
DescribeNoLock(p) ==
  /\ alive /\ pc[p] = "dLock"
  /\ pc' = [pc EXCEPT ![p] = "dRange"]
  /\ UNCHANGED collectorVars
  /\ UNCHANGED <<mu, collectors, gauges, clients, alive, locals, lastLogin>>

DescribeLock(p) ==
  /\ alive /\ pc[p] = "dLock"
  /\ CanLock(mu)
  /\ mu' = TRUE
  /\ pc' = [pc EXCEPT ![p] = "dRange"]
  /\ UNCHANGED collectorVars
  /\ UNCHANGED <<collectors, gauges, clients, alive, locals, lastLogin>>

\* for _, cc := range e.collectors { cc.Describe(ch) }
DescribeRange(p) ==
  /\ alive /\ pc[p] = "dRange"
  /\ rng' = [rng EXCEPT ![p] = collectors]
  /\ dout' = [dout EXCEPT ![p] = DescribeAll(collectors)]
  /\ pc' = [pc EXCEPT ![p] = "dUnlock"]
  /\ UNCHANGED collectorVars
  /\ UNCHANGED <<mu, collectors, gauges, clients, alive, idx, out, calls,
                 logins, built, lastLogin>>

DescribeUnlock(p) ==
  /\ alive /\ pc[p] = "dUnlock"
  /\ mu' = FALSE
  /\ pc' = [pc EXCEPT ![p] = "idle"]
  /\ ClearLocals(p)
  /\ UNCHANGED collectorVars
  /\ UNCHANGED <<collectors, gauges, clients, alive, lastLogin>>

(***************************************************************************)
(* Exporter.Collect.                                                       *)
(***************************************************************************)
CollectCall(p) ==
  /\ alive /\ pc[p] = "idle"
  /\ pc' = [pc EXCEPT ![p] = "cLock"]
  /\ UNCHANGED collectorVars
  /\ UNCHANGED <<mu, collectors, gauges, clients, alive, locals, lastLogin>>

CollectLock(p) ==
  /\ alive /\ pc[p] = "cLock"
  /\ CanLock(mu)
  /\ mu' = TRUE
  /\ pc' = [pc EXCEPT ![p] = "cRange"]
  /\ UNCHANGED collectorVars
  /\ UNCHANGED <<collectors, gauges, clients, alive, locals, lastLogin>>

\* range e.collectors: the slice is read once, when the loop starts.
CollectRange(p) ==
  /\ alive /\ pc[p] = "cRange"
  /\ rng' = [rng EXCEPT ![p] = collectors]
  /\ idx' = [idx EXCEPT ![p] = 1]
  /\ pc' = [pc EXCEPT ![p] = IF collectors = << >> THEN "cUnlock" ELSE "cLoop"]
  /\ UNCHANGED collectorVars
  /\ UNCHANGED <<mu, collectors, gauges, clients, alive, out, dout, calls,
                 logins, built, lastLogin>>

\* Where the loop goes after the element at idx[p]: the next element, or
\* the end of Collect.
LoopNext(p) == IF idx[p] + 1 > Len(rng[p]) THEN "cUnlock" ELSE "cLoop"

\* What DeviceCollector.CollectError sends on ch for the sweep rs, g being
\* the gauge children after the sweep: the gauges after a sweep without
\* error, the placeholder otherwise.
DeviceCollectError(g, rs) ==
  IF SweepErr(rs) = "nil" THEN DeviceEmit(g)
  ELSE << Push("device",
               {NewInvalidMetric("unifi_devices_total", SweepErr(rs))}) >>

\* CollectDevice as it would be if Collect dropped the collector's error.
CollectDeviceDropErr(p) ==
  /\ alive /\ pc[p] = "cLoop"
  /\ rng[p][idx[p]].kind = "device"
  /\ \E rs \in Sweeps(DevicesResults) :
       LET g == DeviceCollect(gauges, rs)
       IN /\ calls' = [calls EXCEPT ![p] =
                         Append(@, [kind |-> "device",
                                    client |-> rng[p][idx[p]].client,
                                    rs |-> rs])]
          /\ gauges' = g
          /\ out' = [out EXCEPT ![p] = @ \o DeviceCollectError(g, rs)]
          /\ pc' = [pc EXCEPT ![p] = LoopNext(p)]
          /\ idx' = [idx EXCEPT ![p] = @ + 1]
  /\ UNCHANGED collectorVars
  /\ UNCHANGED <<mu, collectors, clients, alive, rng, dout, logins, built,
                 lastLogin>>

\* cc.CollectError(ch) for the device collector at idx[p], then continue on
\* a nil error.
CollectDevice(p) ==
  /\ alive /\ pc[p] = "cLoop"
  /\ rng[p][idx[p]].kind = "device"
  /\ \E rs \in Sweeps(DevicesResults) :
       LET g == DeviceCollect(gauges, rs)
       IN /\ calls' = [calls EXCEPT ![p] =
                         Append(@, [kind |-> "device",
                                    client |-> rng[p][idx[p]].client,
                                    rs |-> rs])]
          /\ gauges' = g
          /\ out' = [out EXCEPT ![p] = @ \o DeviceCollectError(g, rs)]
          /\ IF SweepErr(rs) = "nil"
             THEN /\ pc' = [pc EXCEPT ![p] = LoopNext(p)]
                  /\ idx' = [idx EXCEPT ![p] = @ + 1]
             ELSE /\ pc' = [pc EXCEPT ![p] = "cInit"]
                  /\ idx' = idx
  /\ UNCHANGED collectorVars
  /\ UNCHANGED <<mu, collectors, clients, alive, rng, dout, logins, built,
                 lastLogin>>

\* CollectStation as it would be if Collect called initClient only after an
\* authentication failure.
CollectStationAuthOnly(p) ==
  /\ alive /\ pc[p] = "cLoop"
  /\ rng[p][idx[p]].kind = "station"
  /\ \E rs \in Sweeps(StationsResults) :
       /\ calls' = [calls EXCEPT ![p] =
                      Append(@, [kind |-> "station",
                                 client |-> rng[p][idx[p]].client,
                                 rs |-> rs])]
       /\ out' = [out EXCEPT ![p] = @ \o StationCollectError(rs)]
       /\ IF SweepErr(rs) # "auth"
          THEN /\ pc' = [pc EXCEPT ![p] = LoopNext(p)]
               /\ idx' = [idx EXCEPT ![p] = @ + 1]
          ELSE /\ pc' = [pc EXCEPT ![p] = "cInit"]
               /\ idx' = idx
  /\ UNCHANGED collectorVars
  /\ UNCHANGED <<mu, collectors, gauges, clients, alive, rng, dout, logins,
                 built, lastLogin>>

\* CollectStation as it would be if the loop of Collect read e.collectors
\* anew at every iteration.
CollectStationRereads(p) ==
  /\ alive /\ pc[p] = "cLoop"
  /\ rng[p][idx[p]].kind = "station"
  /\ \E rs \in Sweeps(StationsResults) :
       /\ calls' = [calls EXCEPT ![p] =
                      Append(@, [kind |-> "station",
                                 client |-> collectors[idx[p]].client,
                                 rs |-> rs])]
       /\ out' = [out EXCEPT ![p] = @ \o StationCollectError(rs)]
       /\ IF SweepErr(rs) = "nil"
          THEN /\ pc' = [pc EXCEPT ![p] = LoopNext(p)]
               /\ idx' = [idx EXCEPT ![p] = @ + 1]
          ELSE /\ pc' = [pc EXCEPT ![p] = "cInit"]
               /\ idx' = idx
  /\ UNCHANGED collectorVars
  /\ UNCHANGED <<mu, collectors, gauges, clients, alive, rng, dout, logins,
                 built, lastLogin>>

\* cc.CollectError(ch) for the station collector at idx[p], then continue
\* on a nil error.
CollectStation(p) ==
  /\ alive /\ pc[p] = "cLoop"
  /\ rng[p][idx[p]].kind = "station"
  /\ \E rs \in Sweeps(StationsResults) :
       /\ calls' = [calls EXCEPT ![p] =
                      Append(@, [kind |-> "station",
                                 client |-> rng[p][idx[p]].client,
                                 rs |-> rs])]
       /\ out' = [out EXCEPT ![p] = @ \o StationCollectError(rs)]
       /\ IF SweepErr(rs) = "nil"
          THEN /\ pc' = [pc EXCEPT ![p] = LoopNext(p)]
               /\ idx' = [idx EXCEPT ![p] = @ + 1]
          ELSE /\ pc' = [pc EXCEPT ![p] = "cInit"]
               /\ idx' = idx
  /\ UNCHANGED collectorVars
  /\ UNCHANGED <<mu, collectors, gauges, clients, alive, rng, dout, logins,
                 built, lastLogin>>

\* InitClientOk as it would be if Collect called the failed collector again
\* after a successful login.
InitClientOkRetry(p) ==
  /\ alive /\ pc[p] = "cInit"
  /\ clients <= MaxClients
  /\ clients' = clients + 1
  /\ collectors' = NewCollectors(clients + 1)
  /\ gauges' = {}
  /\ logins' = [logins EXCEPT ![p] = Append(@, "ok")]
  /\ built' = [built EXCEPT ![p] = Append(@, NewCollectors(clients + 1))]
  /\ lastLogin' = "ok"
  /\ pc' = [pc EXCEPT ![p] = "cLoop"]
  /\ UNCHANGED collectorVars
  /\ UNCHANGED <<mu, alive, rng, idx, out, dout, calls>>

\* InitClientOk as it would be if initClient logged in without rebuilding
\* the collectors around the new client.
InitClientOkKeepsSet(p) ==
  /\ alive /\ pc[p] = "cInit"
  /\ clients <= MaxClients
  /\ clients' = clients + 1
  /\ logins' = [logins EXCEPT ![p] = Append(@, "ok")]
  /\ lastLogin' = "ok"
  /\ pc' = [pc EXCEPT ![p] = LoopNext(p)]
  /\ idx' = [idx EXCEPT ![p] = @ + 1]
  /\ UNCHANGED collectorVars
  /\ UNCHANGED <<mu, collectors, gauges, alive, rng, out, dout, calls, built>>

\* e.initClient() after a collector error, clientFn returning a client:
\* the collector set is replaced and the loop goes on with the old slice.
InitClientOk(p) ==
  /\ alive /\ pc[p] = "cInit"
  /\ clients <= MaxClients
  /\ clients' = clients + 1
  /\ collectors' = NewCollectors(clients + 1)
  /\ gauges' = {}
  /\ logins' = [logins EXCEPT ![p] = Append(@, "ok")]
  /\ built' = [built EXCEPT ![p] = Append(@, NewCollectors(clients + 1))]
  /\ lastLogin' = "ok"
  /\ pc' = [pc EXCEPT ![p] = LoopNext(p)]
  /\ idx' = [idx EXCEPT ![p] = @ + 1]
  /\ UNCHANGED collectorVars
  /\ UNCHANGED <<mu, alive, rng, out, dout, calls>>

\* InitClientErr as it would be if Collect went on with the next collector
\* after a failed login.
InitClientErrContinue(p) ==
  /\ alive /\ pc[p] = "cInit"
  /\ logins' = [logins EXCEPT ![p] = Append(@, "err")]
  /\ lastLogin' = "err"
  /\ pc' = [pc EXCEPT ![p] = LoopNext(p)]
  /\ idx' = [idx EXCEPT ![p] = @ + 1]
  /\ UNCHANGED collectorVars
  /\ UNCHANGED <<mu, collectors, gauges, clients, alive, rng, out, dout,
                 calls, built>>

\* InitClientErr as it would be if initClient dropped the collector set
\* before it tested the error of clientFn.
InitClientErrClears(p) ==
  /\ alive /\ pc[p] = "cInit"
  /\ collectors' = << >>
  /\ logins' = [logins EXCEPT ![p] = Append(@, "err")]
  /\ lastLogin' = "err"
  /\ pc' = [pc EXCEPT ![p] = "cUnlock"]
  /\ UNCHANGED collectorVars
  /\ UNCHANGED <<mu, gauges, clients, alive, rng, idx, out, dout, calls,
                 built>>

\* e.initClient() after a collector error, clientFn returning an error:
\* Collect logs and returns.
InitClientErr(p) ==
  /\ alive /\ pc[p] = "cInit"
  /\ logins' = [logins EXCEPT ![p] = Append(@, "err")]
  /\ lastLogin' = "err"
  /\ pc' = [pc EXCEPT ![p] = "cUnlock"]
  /\ UNCHANGED collectorVars
  /\ UNCHANGED <<mu, collectors, gauges, clients, alive, rng, idx, out, dout,
                 calls, built>>

\* CollectUnlock as it would be if Collect returned with the mutex held.
CollectReturnLocked(p) ==
  /\ alive /\ pc[p] = "cUnlock"
  /\ pc' = [pc EXCEPT ![p] = "idle"]
  /\ ClearLocals(p)
  /\ UNCHANGED collectorVars
  /\ UNCHANGED <<mu, collectors, gauges, clients, alive, lastLogin>>

\* defer e.mu.Unlock(), and Collect returns.
CollectUnlock(p) ==
  /\ alive /\ pc[p] = "cUnlock"
  /\ mu' = FALSE
  /\ pc' = [pc EXCEPT ![p] = "idle"]
  /\ ClearLocals(p)
  /\ UNCHANGED collectorVars
  /\ UNCHANGED <<collectors, gauges, clients, alive, lastLogin>>

Next ==
  \E p \in Procs :
    \/ DescribeCall(p)
    \/ DescribeLock(p)
    \/ DescribeRange(p)
    \/ DescribeUnlock(p)
    \/ CollectCall(p)
    \/ CollectLock(p)
    \/ CollectRange(p)
    \/ CollectDevice(p)
    \/ CollectStation(p)
    \/ InitClientOk(p)
    \/ InitClientErr(p)
    \/ CollectUnlock(p)

Spec == Init /\ [][Next]_vars

\* The steps of a call of Describe or Collect that has the mutex: each is a
\* statement of the goroutine, a facade call that returns, or a send on a
\* channel that is drained.
Running(p) ==
  \/ DescribeRange(p)
  \/ DescribeUnlock(p)
  \/ CollectRange(p)
  \/ CollectDevice(p)
  \/ CollectStation(p)
  \/ InitClientOk(p)
  \/ InitClientErr(p)
  \/ CollectUnlock(p)

\* Scheduling: a goroutine that can run does run (only the holder of the
\* mutex has a step of Running), and sync.Mutex hands the mutex to a
\* goroutine that keeps waiting for it (its starvation mode), so a waiter
\* is not passed over for ever.  Nothing obliges a scrape to arrive:
\* DescribeCall and CollectCall are not fair.
Fairness ==
  /\ WF_vars(\E p \in Procs : Running(p))
  /\ \A p \in Procs : SF_vars(CollectLock(p) \/ DescribeLock(p))

SpecFair == Spec /\ Fairness

(***************************************************************************)
(* The Exporter from its construction on: main calls New, which calls      *)
(* initClient, and registers the Exporter it gets; the scrapes follow.     *)
(***************************************************************************)
\* Before New is called: no Exporter, clientFn not yet called by New.
InitNew ==
  /\ mu = FALSE
  /\ collectors = << >>
  /\ gauges = {}
  /\ clients = 0
  /\ alive = FALSE
  /\ pc = [p \in Procs |-> "idle"]
  /\ rng = [p \in Procs |-> << >>]
  /\ idx = [p \in Procs |-> 0]
  /\ out = [p \in Procs |-> << >>]
  /\ dout = [p \in Procs |-> << >>]
  /\ calls = [p \in Procs |-> << >>]
  /\ logins = [p \in Procs |-> << >>]
  /\ built = [p \in Procs |-> << >>]
  /\ lastLogin = "none"
  /\ job = NoJob
  /\ result = NoResult

\* NewErr as it would be if New returned the Exporter after a failed login.
NewErrReturnsExporter ==
  /\ ~alive /\ lastLogin = "none"
  /\ lastLogin' = "err"
  /\ alive' = TRUE
  /\ UNCHANGED collectorVars
  /\ UNCHANGED <<mu, collectors, gauges, clients, pc, locals>>

\* New, clientFn returning a client: e.initClient() is called without
\* e.mu.Lock(), assigns the collector set, and New returns the Exporter,
\* which main registers.
NewOk ==
  /\ ~alive /\ lastLogin = "none"
  /\ clients' = clients + 1
  /\ collectors' = NewCollectors(clients + 1)
  /\ lastLogin' = "ok"
  /\ alive' = TRUE
  /\ UNCHANGED collectorVars
  /\ UNCHANGED <<mu, gauges, pc, locals>>

\* New, clientFn returning an error: New returns nil and the error, and main
\* ends the process in log.Fatalf.
NewErr ==
  /\ ~alive /\ lastLogin = "none"
  /\ lastLogin' = "err"
  /\ UNCHANGED collectorVars
  /\ UNCHANGED <<mu, collectors, gauges, clients, alive, pc, locals>>

NextNew ==
  \/ NewOk
  \/ NewErr
  \/ Next

SpecNew == InitNew /\ [][NextNew]_vars

(***************************************************************************)
(* The superseded Exporter (New(c, sites), Describe without the mutex,     *)
(* Collect calling cc.Collect) around the DeviceCollector.                 *)
(***************************************************************************)
\* New(c, sites): the collector set is the device collector alone.
InitLegacy ==
  /\ mu = FALSE
  /\ collectors = << [kind |-> "device", client |-> 1] >>
  /\ gauges = {}
  /\ clients = 1
  /\ alive = TRUE
  /\ pc = [p \in Procs |-> "idle"]
  /\ rng = [p \in Procs |-> << >>]
  /\ idx = [p \in Procs |-> 0]
  /\ out = [p \in Procs |-> << >>]
  /\ dout = [p \in Procs |-> << >>]
  /\ calls = [p \in Procs |-> << >>]
  /\ logins = [p \in Procs |-> << >>]
  /\ built = [p \in Procs |-> << >>]
  /\ lastLogin = "ok"
  /\ job = NoJob
  /\ result = NoResult

LegacyDescribeCall(p) ==
  /\ alive /\ pc[p] = "idle"
  /\ pc' = [pc EXCEPT ![p] = "lDescribe"]
  /\ UNCHANGED collectorVars
  /\ UNCHANGED <<mu, collectors, gauges, clients, alive, locals, lastLogin>>

\* for _, cc := range c.collectors { cc.Describe(ch) }, and Describe
\* returns.
LegacyDescribe(p) ==
  /\ alive /\ pc[p] = "lDescribe"
  /\ pc' = [pc EXCEPT ![p] = "idle"]
  /\ UNCHANGED collectorVars
  /\ UNCHANGED <<mu, collectors, gauges, clients, alive, locals, lastLogin>>

LegacyCollectCall(p) ==
  /\ alive /\ pc[p] = "idle"
  /\ pc' = [pc EXCEPT ![p] = "lLock"]
  /\ UNCHANGED collectorVars
  /\ UNCHANGED <<mu, collectors, gauges, clients, alive, locals, lastLogin>>

LegacyCollectLock(p) ==
  /\ alive /\ pc[p] = "lLock"
  /\ CanLock(mu)
  /\ mu' = TRUE
  /\ rng' = [rng EXCEPT ![p] = collectors]
  /\ idx' = [idx EXCEPT ![p] = 1]
  /\ pc' = [pc EXCEPT ![p] = "lLoop"]
  /\ UNCHANGED collectorVars
  /\ UNCHANGED <<collectors, gauges, clients, alive, out, dout, calls, logins,
                 built, lastLogin>>

\* cc.Collect(ch) for the device collector (DeviceCollector.Collect): a
\* failed sweep ends the process in log.Fatalf, a sweep without error is
\* followed by the gauges.
LegacyCollectDevice(p) ==
  /\ alive /\ pc[p] = "lLoop"
  /\ rng[p][idx[p]].kind = "device"
  /\ \E rs \in Sweeps(DevicesResults) :
       LET g == DeviceCollect(gauges, rs)
       IN /\ gauges' = g
          /\ calls' = [calls EXCEPT ![p] =
                         Append(@, [kind |-> "device",
                                    client |-> rng[p][idx[p]].client,
                                    rs |-> rs])]
          /\ IF SweepErr(rs) = "nil"
             THEN /\ out' = [out EXCEPT ![p] = @ \o DeviceEmit(g)]
                  /\ pc' = [pc EXCEPT ![p] = "lUnlock"]
                  /\ idx' = [idx EXCEPT ![p] = @ + 1]
                  /\ alive' = alive
             ELSE /\ alive' = FALSE
                  /\ UNCHANGED <<out, pc, idx>>
  /\ UNCHANGED collectorVars
  /\ UNCHANGED <<mu, collectors, clients, rng, dout, logins, built, lastLogin>>

LegacyCollectUnlock(p) ==
  /\ alive /\ pc[p] = "lUnlock"
  /\ mu' = FALSE
  /\ pc' = [pc EXCEPT ![p] = "idle"]
  /\ ClearLocals(p)
  /\ UNCHANGED collectorVars
  /\ UNCHANGED <<collectors, gauges, clients, alive, lastLogin>>

NextLegacy ==
  \E p \in Procs :
    \/ LegacyDescribeCall(p)
    \/ LegacyDescribe(p)
    \/ LegacyCollectCall(p)
    \/ LegacyCollectLock(p)
    \/ LegacyCollectDevice(p)
    \/ LegacyCollectUnlock(p)

SpecLegacy == InitLegacy /\ [][NextLegacy]_vars

(***************************************************************************)
(* A collector called on its own, as the tests of the collectors call it:  *)
(* built on one of the site lists, swept once over the controller's        *)
(* answers; and the functions that the tests call on their own.            *)
(***************************************************************************)
\* The answers of one device sweep: it asks for the next site only after
\* an answer that decodes.
DeviceSweepAnswers ==
  {ans \in UNION {[1..n -> DeviceAnswers] : n \in 1..NSites} :
     IsSweep([i \in DOMAIN ans |-> ClientDevices(ans[i])])}

\* What the controller answers for each site when it is asked for the
\* site's stations: the station collector asks while the answers decode.
StationSiteAnswers == [1..NSites -> StationAnswers]

DeviceCollectorCall ==
  /\ job = NoJob
  /\ \E sites \in SiteConfigs, ans \in DeviceSweepAnswers :
       LET rs == [i \in DOMAIN ans |-> ClientDevices(ans[i])]
       IN /\ job' = [op |-> "device", sites |-> sites, answers |-> ans,
                     rs |-> rs]
          /\ result' = DeviceCollectorRun(sites, rs)
  /\ UNCHANGED exporterVars

StationCollectorCall ==
  /\ job = NoJob
  /\ \E sites \in SiteConfigs, ans \in StationSiteAnswers :
       LET rs == [i \in DOMAIN ans |-> ClientStations(ans[i])]
       IN /\ job' = [op |-> "station", sites |-> sites, answers |-> ans,
                     rs |-> FetchesMade(rs)]
          /\ result' = StationCollectorRun(sites, rs)
  /\ UNCHANGED exporterVars

\* main calls pickSites with the configured choice and the listed sites.
PickSitesCall ==
  /\ job = NoJob
  /\ \E choose \in SiteChoices,
        sites \in UNION {[1..n -> ListedSites] : n \in 0..MaxPickSites} :
       LET r == pickSites(choose, sites)
       IN /\ job' = [op |-> "pickSites", choose |-> choose, sites |-> sites]
          /\ result' = [outcome |-> IF r.err = "nil" THEN "ok" ELSE "err",
                        sites |-> r.sites]
  /\ UNCHANGED exporterVars

\* siteDescription called on a description, and on what it has returned.
SiteDescriptionCall ==
  /\ job = NoJob
  /\ \E desc \in Descriptions :
       /\ job' = [op |-> "siteDescription", desc |-> desc]
       /\ result' = [outcome |-> "ok", value |-> siteDescription(desc),
                     again |-> siteDescription(siteDescription(desc))]
  /\ UNCHANGED exporterVars

\* The call is over (returned, or the panic has unwound it).
CollectorDone ==
  /\ job # NoJob
  /\ job' = NoJob
  /\ result' = NoResult
  /\ UNCHANGED exporterVars

NextCollectors ==
  \/ DeviceCollectorCall
  \/ StationCollectorCall
  \/ PickSitesCall
  \/ SiteDescriptionCall
  \/ CollectorDone

SpecCollectors == Init /\ [][NextCollectors]_vars

(***************************************************************************)
(* Notions the properties are stated with.                                 *)
(***************************************************************************)
InCollect == {"cRange", "cLoop", "cInit", "cUnlock"}

Failed(call) == SweepErr(call.rs) # "nil"

\* The failing collector calls among the first n of p's Collect.
FailuresUpTo(p, n) ==
  Cardinality({i \in DOMAIN calls[p] : i <= n /\ Failed(calls[p][i])})

Failures(p) == FailuresUpTo(p, Len(calls[p]))

LoginsOk(p) == Cardinality({i \in DOMAIN logins[p] : logins[p][i] = "ok"})

\* All metrics p's Collect has sent, and those a given collector has sent.
Sent(p) == UNION {out[p][i].samples : i \in DOMAIN out[p]}

SentBy(p, kind) ==
  UNION {out[p][i].samples : i \in {j \in DOMAIN out[p] : out[p][j].coll = kind}}

(***************************************************************************)
(* C1.  As claimed: in a Collect in which some collector fails, clientFn   *)
(* is called exactly once and the collector set is rebuilt at most once,   *)
(* however many collectors fail.                                           *)
(***************************************************************************)
C1_OneLoginPerScrape ==
  \A p \in Procs :
    (pc[p] = "cUnlock" /\ Failures(p) >= 1)
      => (Len(logins[p]) = 1 /\ Len(built[p]) <= 1)

\* C1, amended: clientFn is called once after each failing collector, until
\* a call of it fails (which ends the Collect); the collector set is
\* rebuilt once for each successful call.  So a Collect with k failing
\* collectors makes between 1 and k calls, at most one per collector.
C1_OneLoginPerFailure ==
  \A p \in Procs :
    pc[p] \in InCollect =>
      /\ Len(logins[p]) = Failures(p) - (IF pc[p] = "cInit" THEN 1 ELSE 0)
      /\ Len(built[p]) = LoginsOk(p)
      /\ Len(logins[p]) <= Len(rng[p])
      /\ \A i \in DOMAIN logins[p] :
           logins[p][i] = "err" => (i = Len(logins[p]) /\ pc[p] = "cUnlock")

C1_Witness ==
  \E p \in Procs :
    /\ pc[p] = "cUnlock"
    /\ Failures(p) = 2
    /\ Len(logins[p]) = 2
    /\ Len(built[p]) = 2

(***************************************************************************)
(* C2.  In a Collect in which a collector's CollectError returns an error, *)
(* that collector has sent no valid metric, whichever site failed.         *)
(***************************************************************************)
C2_NoSampleOfFailedCollector ==
  \A p \in Procs :
    \A i \in DOMAIN calls[p] :
      Failed(calls[p][i]) =>
        \A m \in SentBy(p, calls[p][i].kind) : ~m.valid

(***************************************************************************)
(* C3.  As claimed: a collector error that is not an authentication        *)
(* failure makes Collect neither call clientFn nor rebuild the collectors. *)
(***************************************************************************)
C3_NoLoginOnOtherError ==
  \A p \in Procs :
    (\A i \in DOMAIN calls[p] : SweepErr(calls[p][i].rs) \in {"nil", "other"})
      => (logins[p] = << >> /\ built[p] = << >>)

\* C3, amended: every collector error, an authentication failure or not,
\* makes Collect call clientFn, and rebuild the collector set when that
\* call succeeds.
C3_LoginOnAnyError ==
  \A p \in Procs :
    \A i \in DOMAIN calls[p] :
      (SweepErr(calls[p][i].rs) = "other"
       /\ ~(i = Len(calls[p]) /\ pc[p] = "cInit"))
        => LET k == FailuresUpTo(p, i)
           IN /\ Len(logins[p]) >= k
              /\ (logins[p][k] = "ok" =>
                    /\ Len(built[p]) >= k
                    /\ \A j \in DOMAIN built[p][k] :
                         built[p][k][j].client > calls[p][i].client)

C3_Witness ==
  \E p \in Procs :
    /\ pc[p] = "cUnlock"
    /\ Len(calls[p]) = 2
    /\ SweepErr(calls[p][1].rs) = "nil"
    /\ SweepErr(calls[p][2].rs) = "other"
    /\ logins[p] = <<"ok">>
    /\ collectors = built[p][1]

(***************************************************************************)
(* C4.  No collection error ends the process: after a failed list fetch    *)
(* or a failed login the Exporter still serves.                            *)
(***************************************************************************)
C4_NoErrorEndsProcess ==
  \A p \in Procs :
    ((\E i \in DOMAIN calls[p] : Failed(calls[p][i]))
     \/ (\E i \in DOMAIN logins[p] : logins[p][i] = "err"))
      => alive

(***************************************************************************)
(* C5.  The valid samples of a scrape are a function of the lists the      *)
(* facade returned during that scrape alone: those of the stations of each *)
(* fetched site, and those of the devices of each site when the device     *)
(* sweep succeeded; a device absent from the lists has no sample.          *)
(***************************************************************************)
SeqRange(f) == {f[i] : i \in DOMAIN f}

ExpectedSamples(call) ==
  IF call.kind = "station" THEN SeqRange(StationCollect(call.rs))
  ELSE IF Failed(call) THEN {}
  ELSE UNION {SeqRange(DeviceSiteGauges(Sites[i], call.rs[i].data)) :
                i \in DOMAIN call.rs}

C5_SamplesOfThisScrapeOnly ==
  \A p \in Procs :
    pc[p] = "cUnlock" =>
      {m \in Sent(p) : m.valid}
        = UNION {ExpectedSamples(calls[p][i]) : i \in DOMAIN calls[p]}

(***************************************************************************)
(* C6.  At most one Collect is between e.mu.Lock() and e.mu.Unlock() at    *)
(* any time, and it holds the mutex: only that Collect has collector calls *)
(* made and metrics sent, so the calls and metrics of two scrapes never    *)
(* overlap.                                                                *)
(***************************************************************************)
C6_OneCollectAtATime ==
  /\ Cardinality({p \in Procs : pc[p] \in InCollect}) <= 1
  /\ \A p \in Procs :
       /\ pc[p] \in InCollect => mu
       /\ pc[p] \notin InCollect => (out[p] = << >> /\ calls[p] = << >>)

C6_Witness ==
  \E p, q \in Procs :
    /\ pc[p] = "cLoop"
    /\ out[p] # << >>
    /\ pc[q] = "cLock"

(***************************************************************************)
(* C7.  No goroutine is about to read e.collectors (the range of Describe  *)
(* or of Collect) while another is about to replace it in initClient; the  *)
(* reads and the replacement are made with the mutex held, and what        *)
(* initClient assigns is a whole collector set around one client.          *)
(***************************************************************************)
C7_NoRaceOnCollectors ==
  /\ \A p, q \in Procs :
       (p # q /\ pc[p] = "cInit") => pc[q] \notin {"dRange", "cRange", "cInit"}
  /\ \A p \in Procs : pc[p] \in {"dRange", "cRange", "cInit"} => mu
  /\ \E c \in 1..clients : collectors = NewCollectors(c)

C7_Witness ==
  \E p, q \in Procs :
    /\ pc[p] = "cInit"
    /\ pc[q] = "dLock"
    /\ clients > 1

(***************************************************************************)
(* C8.  When clientFn fails during Collect, Collect returns at once: no    *)
(* further collector is called and nothing further is sent; and the next   *)
(* Collect runs the collectors of the unchanged set again, and calls       *)
(* clientFn again when one of them fails.                                  *)
(***************************************************************************)
LoginFailed(p) == \E i \in DOMAIN logins[p] : logins[p][i] = "err"

C8_ReturnOnLoginFailure ==
  [][\A p \in Procs :
       \* the step in which clientFn fails
       /\ (pc[p] = "cInit" /\ LoginFailed(p)')
            => /\ pc'[p] = "cUnlock"
               /\ out'[p] = out[p]
               /\ calls'[p] = calls[p]
               /\ collectors' = collectors
       \* the rest of that Collect
       /\ LoginFailed(p)
            => \/ (pc'[p] = pc[p] /\ out'[p] = out[p] /\ calls'[p] = calls[p])
               \/ (pc'[p] = "idle" /\ out'[p] = << >>)
       \* a Collect that starts when the latest login has failed
       /\ (lastLogin = "err" /\ pc[p] = "cRange" /\ pc'[p] # "cRange")
            => (pc'[p] = "cLoop" /\ rng'[p] = collectors /\ idx'[p] = 1)
       /\ (lastLogin = "err" /\ pc[p] = "cLoop" /\ Failures(p)' > Failures(p))
            => pc'[p] = "cInit"
       /\ (pc[p] = "cInit" /\ pc'[p] # "cInit")
            => Len(logins'[p]) = Len(logins[p]) + 1
    ]_vars

C8_Witness ==
  \E p \in Procs :
    /\ lastLogin = "err"
    /\ logins[p] = << >>
    /\ pc[p] = "cInit"

(***************************************************************************)
(* C9.  When clientFn succeeds during Collect, the rebuilt set, bound to   *)
(* the new client, is what every later Collect and Describe iterates; in   *)
(* the current Collect no collector is called twice, and a collector that  *)
(* failed has its placeholder in the output and nothing after it.          *)
(***************************************************************************)
C9_RebuiltSetForLaterScrapes ==
  /\ collectors = NewCollectors(clients)
  /\ \A p \in Procs :
       /\ (pc[p] \in {"cLoop", "cInit", "cUnlock"} /\ built[p] = << >>)
            => rng[p] = collectors
       /\ pc[p] = "dUnlock" => rng[p] = collectors
       /\ built[p] # << >> => collectors = built[p][Len(built[p])]
       /\ \A i, j \in DOMAIN calls[p] :
            calls[p][i].kind = calls[p][j].kind => i = j
       /\ \A i \in DOMAIN calls[p] :
            (Failed(calls[p][i])
             /\ ~(i = Len(calls[p]) /\ pc[p] = "cInit" ))
              => \E k \in DOMAIN out[p] :
                   /\ out[p][k].coll = calls[p][i].kind
                   /\ \E m \in out[p][k].samples : ~m.valid
                   /\ \A l \in DOMAIN out[p] :
                        l > k => out[p][l].coll # calls[p][i].kind

C9_Witness ==
  \E p \in Procs :
    /\ pc[p] = "cUnlock"
    /\ logins[p] = <<"ok">>
    /\ Len(calls[p]) = 2
    /\ Failed(calls[p][1])
    /\ calls[p][2].client < clients

(***************************************************************************)
(* C10.  A collector call that failed has sent an invalid-metric           *)
(* placeholder: every scrape that lacks the samples of a site for a failed *)
(* fetch holds a placeholder.                                              *)
(***************************************************************************)
C10_FailureHasPlaceholder ==
  \A p \in Procs :
    \A i \in DOMAIN calls[p] :
      Failed(calls[p][i]) =>
        \E m \in SentBy(p, calls[p][i].kind) : ~m.valid

(***************************************************************************)
(* C11.  Under fair scheduling every call of Collect (and of Describe)     *)
(* returns: one that waits for the mutex gets it, and one that has it      *)
(* reaches its return whether its collectors succeed, one fails and the    *)
(* login succeeds, or the login fails; and the step in which Collect       *)
(* returns releases the mutex.                                             *)
(***************************************************************************)
C11_CollectReturnsAndUnlocks ==
  /\ \A p \in Procs : []<>(pc[p] = "idle")
  /\ [][\A p \in Procs :
          (pc[p] \in InCollect /\ pc'[p] = "idle") => (mu /\ ~mu')]_vars

C11_Witness ==
  \E p, q \in Procs :
    /\ pc[p] = "cLock"
    /\ pc[q] = "cUnlock"
    /\ LoginFailed(q)
    /\ mu

(***************************************************************************)
(* C12.  What Describe delivers is the same descriptors (name and label    *)
(* names) in every call: those of the device collector followed by those   *)
(* of the station collector, whatever collector set initClient has built   *)
(* since New and whatever the facade has returned.                         *)
(***************************************************************************)
C12_DescribeIsStable ==
  \A p \in Procs :
    pc[p] = "dUnlock" =>
      [i \in DOMAIN dout[p] |-> Descriptor(dout[p][i])]
        = [i \in 1..(Len(DeviceDescs) + Len(StationDescs)) |->
             Descriptor((DeviceDescs \o StationDescs)[i])]

C12_Witness ==
  \E p \in Procs :
    /\ pc[p] = "dUnlock"
    /\ clients = MaxClients + 1
    /\ gauges # {}

(***************************************************************************)
(* C13.  Every metric a collector sends in Collect, the placeholder of a   *)
(* failed sweep included, carries a descriptor that the collector's        *)
(* Describe delivers, with as many label values as the descriptor has      *)
(* label names; and every descriptor Describe delivers is carried by a     *)
(* metric of a sweep that succeeds on a site with devices (stations).      *)
(***************************************************************************)
C13_SentDescriptorsAreDescribed ==
  \A p \in Procs :
    /\ \A i \in DOMAIN out[p] :
         \A m \in out[p][i].samples :
           /\ m.desc \in SeqRange(CollectorDescribe([kind |-> out[p][i].coll]))
           /\ m.valid => Len(m.labels) = Len(LabelNames(m.desc))
    /\ \A i \in DOMAIN calls[p] :
         (/\ ~Failed(calls[p][i])
          /\ \E k \in DOMAIN calls[p][i].rs : calls[p][i].rs[k].data # << >>)
           => \A d \in SeqRange(CollectorDescribe(calls[p][i])) :
                \E m \in SentBy(p, calls[p][i].kind) : m.valid /\ m.desc = d

C13_Witness ==
  \E p \in Procs :
    /\ pc[p] = "cUnlock"
    /\ \E m \in SentBy(p, "device") : m.desc = "unifi_devices_stations_guest"
    /\ \E m \in SentBy(p, "station") : m.desc = "unifi_stations_noise_dbm"
    /\ \E m \in SentBy(p, "station") : ~m.valid

(***************************************************************************)
(* Notions the properties of a collector called on its own are stated      *)
(* with.                                                                   *)
(***************************************************************************)
\* The sites of the job whose list was fetched and decoded.
Fetched == {i \in DOMAIN job.rs : job.rs[i].err = "nil"}

\* All metrics the call has sent: the children of the GaugeVecs for the
\* device collector, the const metrics for the station collector.
Emitted ==
  IF job.op = "device"
  THEN UNION {result.out[i].samples : i \in DOMAIN result.out}
  ELSE SeqRange(result.out)

\* No two sites of the job get the same site label from the device
\* collector.
DeviceLabelsDiffer ==
  \A i, k \in DOMAIN job.sites :
    i # k => siteDescription(job.sites[i].Description)
               # siteDescription(job.sites[k].Description)

\* The values of the gauges named desc that site i of the job has set.
ValuesSet(i, desc) ==
  {m.value : m \in {x \in SeqRange(result.sets[i]) : x.desc = desc}}

(***************************************************************************)
(* C14.  For every site whose device list is fetched, with N devices in    *)
(* the controller's answer, the sweep sets the site's device count to N    *)
(* and its adopted and unadopted counts to the numbers of devices with     *)
(* adopted true and false, which sum to N; these are the samples sent for  *)
(* the site (for sites whose labels differ: see C17).                      *)
(***************************************************************************)
C14_DeviceCounts ==
  (job.op = "device" /\ result.outcome # "panic") =>
    \A i \in Fetched :
      LET body == job.answers[i].body
          adopted == Cardinality({k \in DOMAIN body : body[k].Adopted})
          unadopted == Cardinality({k \in DOMAIN body : ~body[k].Adopted})
      IN /\ ValuesSet(i, "unifi_devices_total") = {Len(body)}
         /\ ValuesSet(i, "unifi_devices_adopted") = {adopted}
         /\ ValuesSet(i, "unifi_devices_unadopted") = {unadopted}
         /\ \A a \in ValuesSet(i, "unifi_devices_adopted") :
              \A u \in ValuesSet(i, "unifi_devices_unadopted") :
                a + u = Len(body)
         /\ (result.outcome = "ok" /\ DeviceLabelsDiffer) =>
              \A m \in SeqRange(result.sets[i]) :
                m.desc \in {"unifi_devices_total", "unifi_devices_adopted",
                            "unifi_devices_unadopted"} => m \in Emitted

C14_Witness ==
  /\ job.op = "device"
  /\ result.outcome = "ok"
  /\ DeviceLabelsDiffer
  /\ \E i \in Fetched :
       /\ ValuesSet(i, "unifi_devices_total") = {MaxDevices}
       /\ ValuesSet(i, "unifi_devices_adopted") = {1}
       /\ \E m \in Emitted :
            m.desc = "unifi_devices_unadopted" /\ m.value = MaxDevices - 1

\* The metrics named desc that the call has sent for the station id of
\* site i of the job, by their positions in what it has sent.
StationMetrics(i, id, desc) ==
  {k \in DOMAIN result.out :
     /\ result.out[k].desc = desc
     /\ result.out[k].labels[1] = job.sites[i].Description
     /\ result.out[k].labels[2] = id}

StationCounterDescs ==
  {"unifi_stations_received_bytes_total",
   "unifi_stations_transmitted_bytes_total",
   "unifi_stations_received_packets_total",
   "unifi_stations_transmitted_packets_total"}

(***************************************************************************)
(* C15.  For every station of a fetched site the station collector sends   *)
(* each of the four byte and packet counters once; it sends one RSSI and   *)
(* one noise sample, with the station's values, when the station's AP MAC  *)
(* is not empty, and neither of them when it is empty.                     *)
(***************************************************************************)
C15_SignalOnlyWithAPMAC ==
  job.op = "station" =>
    \A i \in Fetched :
      \A k \in DOMAIN job.answers[i].body :
        LET raw == job.answers[i].body[k]
            apMAC == job.rs[i].data[k].APMAC
            rssi == StationMetrics(i, raw.ID, "unifi_stations_rssi_dbm")
            noise == StationMetrics(i, raw.ID, "unifi_stations_noise_dbm")
        IN /\ \A d \in StationCounterDescs :
                Cardinality(StationMetrics(i, raw.ID, d)) = 1
           /\ apMAC = "" => (rssi = {} /\ noise = {})
           /\ apMAC # "" =>
                /\ Cardinality(rssi) = 1 /\ Cardinality(noise) = 1
                /\ \A j \in rssi : result.out[j].value = raw.RSSI
                /\ \A j \in noise : result.out[j].value = raw.Noise

C15_Witness ==
  /\ job.op = "station"
  /\ \E i \in Fetched :
       \E k, l \in DOMAIN job.rs[i].data :
         /\ job.rs[i].data[k].APMAC = ""
         /\ job.rs[i].data[l].APMAC # ""
         /\ StationMetrics(i, job.rs[i].data[l].ID,
                           "unifi_stations_rssi_dbm") # {}
         /\ StationMetrics(i, job.rs[i].data[k].ID,
                           "unifi_stations_received_bytes_total") # {}

(***************************************************************************)
(* C16.  On every sample of a station the hostname label is the name the   *)
(* controller has for the station when that name is not empty, and the     *)
(* hostname the station reports otherwise.                                 *)
(***************************************************************************)
C16_DisplayName ==
  job.op = "station" =>
    \A i \in Fetched :
      \A k \in DOMAIN job.answers[i].body :
        LET raw == job.answers[i].body[k]
        IN \A d \in StationCounterDescs
                     \cup {"unifi_stations_rssi_dbm",
                           "unifi_stations_noise_dbm"} :
             \A j \in StationMetrics(i, raw.ID, d) :
               result.out[j].labels[5]
                 = (IF raw.Name # "" THEN raw.Name ELSE raw.Hostname)

C16_Witness ==
  /\ job.op = "station"
  /\ \E j, k \in DOMAIN result.out :
       /\ result.out[j].desc = "unifi_stations_noise_dbm"
       /\ result.out[j].labels[5] = "nas"
       /\ result.out[k].desc = "unifi_stations_transmitted_bytes_total"
       /\ result.out[k].labels[5] = "foo"

(***************************************************************************)
(* C17.  When two sites of different descriptions are fetched and their    *)
(* lists hold the same device (station) id, what is sent holds the         *)
(* samples of both sites: every sample a site has set is sent, and no      *)
(* sample stands for both sites.                                           *)
(***************************************************************************)
C17_SitesIndependent ==
  (job.op \in {"device", "station"} /\ result.outcome = "ok") =>
    \A i, k \in Fetched :
      (/\ i # k
       /\ job.sites[i].Description # job.sites[k].Description
       /\ \E a \in DOMAIN job.rs[i].data, b \in DOMAIN job.rs[k].data :
            job.rs[i].data[a].ID = job.rs[k].data[b].ID)
        => /\ SeqRange(result.sets[i]) \subseteq Emitted
           /\ SeqRange(result.sets[i]) \cap SeqRange(result.sets[k]) = {}

(***************************************************************************)
(* C18.  The site label of every sample sent for a site is the site's      *)
(* description, character for character, in the device collector and in    *)
(* the station collector.                                                  *)
(***************************************************************************)
C18_SiteLabelIsDescription ==
  (job.op \in {"device", "station"} /\ result.outcome = "ok") =>
    \A i \in Fetched :
      \A m \in SeqRange(result.sets[i]) \cap Emitted :
        m.labels[1] = job.sites[i].Description

(***************************************************************************)
(* C19.  A device with a radio table entry whose code is neither "ng" nor  *)
(* "na" (all devices of the sweep having a NIC) does not make the sweep    *)
(* crash: when the sweep succeeds the device's other samples are sent and  *)
(* the radio has no station-count sample.                                  *)
(***************************************************************************)
C19_UnknownRadioIsSkipped ==
  (/\ job.op = "device"
   /\ \A i \in Fetched : \A k \in DOMAIN job.answers[i].body :
        Len(job.answers[i].body[k].EthernetTable) > 0) =>
    \A i \in Fetched :
      \A k \in DOMAIN job.answers[i].body :
        LET raw == job.answers[i].body[k]
        IN \A r \in DOMAIN raw.RadioTable :
             raw.RadioTable[r].Radio \notin {"ng", "na"} =>
               /\ result.outcome # "panic"
               /\ result.outcome = "ok" =>
                    /\ \E m \in Emitted :
                         /\ m.desc = "unifi_devices_uptime_seconds"
                         /\ m.labels[2] = raw.ID
                    /\ \A m \in Emitted :
                         (m.desc = "unifi_devices_stations_total"
                          /\ m.labels[2] = raw.ID)
                           => m.labels[5] # raw.RadioTable[r].Name

(***************************************************************************)
(* C20.  An answer that decodes to a device without NIC makes the fetch of *)
(* the site fail with an error, so that the sweep ends as it does for a    *)
(* fetch error and no first NIC is read.                                   *)
(***************************************************************************)
C20_EmptyNICListIsError ==
  job.op = "device" =>
    \A i \in DOMAIN job.answers :
      (/\ job.answers[i].fail = "nil"
       /\ \E k \in DOMAIN job.answers[i].body :
            Len(job.answers[i].body[k].EthernetTable) = 0)
        => (job.rs[i].err # "nil" /\ result.outcome = "err")

(***************************************************************************)
(* Notions the properties of the samples of one site are stated with.      *)
(***************************************************************************)
\* The site label a collector gives the samples of site i.
SiteLabelOf(kind, i) ==
  IF kind = "device" THEN siteDescription(Sites[i].Description)
  ELSE Sites[i].Description

\* What tells the samples of one site apart: the descriptor, the id of the
\* device or station ("" on a count sample) and the radio interface ("" on
\* a sample that is not a radio's).
SampleKey(m) ==
  <<m.desc,
    IF Len(m.labels) >= 2 THEN m.labels[2] ELSE "",
    IF Len(m.labels) >= 6 THEN m.labels[5] ELSE "">>

\* The keys of the complete sample set of a site whose fetched list is
\* list: the count samples, and the samples of every device (and of each of
\* its radios) or station of the list.
CompleteKeys(kind, list) ==
  IF kind = "device"
  THEN {<<d, "", "">> : d \in {"unifi_devices_total", "unifi_devices_adopted",
                               "unifi_devices_unadopted"}}
       \cup {<<DeviceDescs[k], list[n].ID, "">> :
               k \in 4..14, n \in DOMAIN list}
       \cup UNION {{<<DeviceDescs[k], list[n].ID, list[n].Radios[r].Name>> :
                      k \in 15..17, r \in DOMAIN list[n].Radios} :
                   n \in DOMAIN list}
  ELSE {<<"unifi_stations", "", "">>}
       \cup {<<StationDescs[k], list[n].ID, "">> :
               k \in 2..5, n \in DOMAIN list}
       \cup {<<StationDescs[k], list[n].ID, "">> :
               k \in 6..7,
               n \in {j \in DOMAIN list : list[j].APMAC # ""}}

\* The keys of the valid samples that the i-th collector call of p's Collect
\* has sent for site s.
SiteKeys(p, i, s) ==
  {SampleKey(m) :
     m \in {x \in SentBy(p, calls[p][i].kind) :
              x.valid /\ x.labels[1] = SiteLabelOf(calls[p][i].kind, s)}}

(***************************************************************************)
(* C21.  For every collector call of a scrape and every configured site,   *)
(* the valid samples sent for the site are none or hold the complete       *)
(* sample set of the site (the count samples and all samples of every      *)
(* entity of the fetched list): none for a site whose fetch failed or was  *)
(* not reached, the complete set for a site the station collector has      *)
(* fetched and for every site of a device sweep without error.             *)
(***************************************************************************)
C21_SiteAllOrNothing ==
  \A p \in Procs :
    \A i \in DOMAIN calls[p] :
      \A s \in 1..NSites :
        LET call == calls[p][i]
            fetched == s \in DOMAIN call.rs /\ call.rs[s].err = "nil"
            complete == CompleteKeys(call.kind, call.rs[s].data)
            sent == SiteKeys(p, i, s)
        IN /\ sent = {} \/ (fetched /\ complete \subseteq sent)
           /\ ~fetched => sent = {}
           /\ (fetched /\ call.kind = "station") => sent = complete
           /\ (fetched /\ ~Failed(call)) => complete \subseteq sent

C21_Witness ==
  \E p \in Procs :
    /\ pc[p] = "cInit"
    /\ Len(calls[p]) = 2
    /\ ~Failed(calls[p][1])
    /\ calls[p][1].rs[2].data # << >>
    /\ Len(calls[p][2].rs) = 2
    /\ calls[p][2].rs[1].data # << >>
    /\ Failed(calls[p][2])
    /\ SiteKeys(p, 2, 1) # {}
    /\ SiteKeys(p, 2, 2) = {}
    /\ SiteKeys(p, 1, 2) # {}

\* The site whose label a sample of a collector of the given kind carries,
\* and the place of the sample's device or station in the list fetched for
\* that site (0 for a count sample).
SiteOf(kind, m) == CHOOSE s \in 1..NSites : m.labels[1] = SiteLabelOf(kind, s)

EntityOf(list, m) ==
  IF Len(m.labels) < 2 THEN 0
  ELSE CHOOSE n \in DOMAIN list : list[n].ID = m.labels[2]

\* The collector call of p's Collect that a batch of the given collector
\* belongs to.
CallOf(p, kind) ==
  calls[p][CHOOSE i \in DOMAIN calls[p] : calls[p][i].kind = kind]

\* The valid samples of the batch at position a of what p's Collect has sent.
ValidAt(p, a) == {m \in out[p][a].samples : m.valid}

(***************************************************************************)
(* C22.  In one scrape the device collector is called before the station   *)
(* collector, and of two valid samples a collector has sent: the one of    *)
(* the earlier site is sent first; of one site, a count sample is sent     *)
(* before a sample of a device or station; and of one site and descriptor, *)
(* the sample of the entity that is earlier in the fetched list is sent    *)
(* first.                                                                  *)
(***************************************************************************)
C22_ScrapeOrder ==
  \A p \in Procs :
    /\ \A i, j \in DOMAIN calls[p] :
         i < j => (calls[p][i].kind = "device" /\ calls[p][j].kind = "station")
    /\ \A a, b \in DOMAIN out[p] :
         out[p][a].coll = out[p][b].coll =>
           \A ma \in ValidAt(p, a), mb \in ValidAt(p, b) :
             LET kind == out[p][a].coll
                 sa == SiteOf(kind, ma)
                 sb == SiteOf(kind, mb)
                 list == CallOf(p, kind).rs[sa].data
             IN /\ sa < sb => a < b
                /\ (sa = sb /\ Len(ma.labels) = 1 /\ Len(mb.labels) > 1)
                     => a < b
                /\ (/\ sa = sb /\ ma.desc = mb.desc /\ Len(ma.labels) > 1
                    /\ \E n \in DOMAIN list : list[n].ID = ma.labels[2]
                    /\ \E n \in DOMAIN list : list[n].ID = mb.labels[2]
                    /\ EntityOf(list, ma) < EntityOf(list, mb))
                     => a < b

\* A step in which initClient runs (clientFn is called): in Collect it adds
\* to the logins of the goroutine's call; in New it is the first call of
\* clientFn.
InitClientBy(p) == Len(logins'[p]) > Len(logins[p])

InitClientByNew == lastLogin = "none" /\ lastLogin' # "none"

(***************************************************************************)
(* C23.  Every run of initClient is made with e.mu locked by the goroutine *)
(* that calls it: the one Collect makes, by a goroutine that is past       *)
(* e.mu.Lock() of its Collect, and the one New makes.                      *)
(***************************************************************************)
C23_InitClientUnderMutex ==
  [][/\ \A p \in Procs : InitClientBy(p) => (mu /\ pc[p] \in InCollect)
     /\ InitClientByNew => mu]_vars

(***************************************************************************)
(* C24.  pickSites with an empty choice returns the listed sites as they   *)
(* are, without error; with another choice it returns exactly one site,    *)
(* the first of the list whose description is the choice character for     *)
(* character; and when no description is the choice (one that differs in   *)
(* case or in a space included) it returns an error and no site.           *)
(***************************************************************************)
C24_PickSites ==
  job.op = "pickSites" =>
    LET in == job.sites
        matches == {i \in DOMAIN in : in[i].Description = job.choose}
    IN /\ job.choose = << >> =>
            (result.outcome = "ok" /\ result.sites = in)
       /\ (job.choose # << >> /\ matches # {}) =>
            /\ result.outcome = "ok"
            /\ Len(result.sites) = 1
            /\ \E i \in matches :
                 /\ result.sites[1] = in[i]
                 /\ \A k \in 1..(i - 1) : in[k].Description # job.choose
       /\ (job.choose # << >> /\ matches = {}) =>
            (result.outcome = "err" /\ result.sites = << >>)

C24_Witness ==
  /\ job.op = "pickSites"
  /\ job.choose = <<"D", "e">>
  /\ Len(job.sites) = MaxPickSites
  /\ job.sites[1].Name = "s2"
  /\ job.sites[2].Name = "s3"
  /\ job.sites[3].Name = "s1"
  /\ result.outcome = "ok"
  /\ result.sites = << job.sites[2] >>

(***************************************************************************)
(* C25.  Whenever an Exporter exists (New has returned it), e.collectors   *)
(* is a device collector followed by a station collector, both built on    *)
(* the client of the latest successful call of clientFn; when clientFn     *)
(* fails in New there is no Exporter, so no goroutine ever runs Describe   *)
(* or Collect on an empty collector set.                                   *)
(***************************************************************************)
C25_CollectorSetShape ==
  /\ alive =>
       /\ clients >= 1
       /\ Len(collectors) = 2
       /\ collectors[1].kind = "device"
       /\ collectors[2].kind = "station"
       /\ collectors[1].client = clients
       /\ collectors[2].client = clients
  /\ (clients = 0 /\ lastLogin = "err") => ~alive
  /\ \A p \in Procs : pc[p] # "idle" => (alive /\ collectors # << >>)

C25_Witness ==
  /\ alive
  /\ clients = MaxClients + 1
  /\ lastLogin = "err"
  /\ \E p \in Procs : pc[p] = "dRange"

(***************************************************************************)
(* C26.  e.collectors changes only in a step in which clientFn returns a   *)
(* client: a Collect whose collectors have all succeeded has not called    *)
(* clientFn and iterates the set that is still the Exporter's, and a step  *)
(* in which clientFn returns an error leaves e.collectors (and the gauges  *)
(* of its device collector) as they were.                                  *)
(***************************************************************************)
C26_SetChangesOnlyOnLogin ==
  /\ [](\A p \in Procs :
          (/\ pc[p] \in {"cLoop", "cUnlock"}
           /\ \A i \in DOMAIN calls[p] : ~Failed(calls[p][i]))
            => (logins[p] = << >> /\ built[p] = << >>
                /\ collectors = rng[p]))
  /\ [][/\ collectors' # collectors =>
             \E p \in Procs :
               /\ InitClientBy(p)
               /\ logins'[p][Len(logins'[p])] = "ok"
               /\ lastLogin' = "ok"
        /\ \A p \in Procs :
             (InitClientBy(p) /\ logins'[p][Len(logins'[p])] = "err")
               => (collectors' = collectors /\ gauges' = gauges)]_vars

C26_Witness ==
  \E p \in Procs :
    /\ pc[p] = "cUnlock"
    /\ logins[p] = <<"ok", "err">>
    /\ collectors = built[p][1]
    /\ collectors # rng[p]

(***************************************************************************)
(* C27.  Every collector a Collect calls is one of the set that was the    *)
(* Exporter's when its loop began, bound to that set's client, also after  *)
(* a failed collector and a successful login of the same Collect: no       *)
(* collector that this Collect has built is called by it.  A Collect that  *)
(* has built none calls the collectors of the latest client, so the        *)
(* rebuilt collectors are first called by the Collect after the one that   *)
(* built them.                                                             *)
(***************************************************************************)
C27_OldSetForRestOfScrape ==
  \A p \in Procs :
    \A i \in DOMAIN calls[p] :
      /\ calls[p][i].kind = rng[p][i].kind
      /\ calls[p][i].client = rng[p][i].client
      /\ \A k \in DOMAIN built[p] :
           \A j \in DOMAIN built[p][k] :
             calls[p][i].client < built[p][k][j].client
      /\ built[p] = << >> => calls[p][i].client = clients

C27_Witness ==
  \E p \in Procs :
    /\ pc[p] = "cInit"
    /\ Len(calls[p]) = 2
    /\ logins[p] = <<"ok">>
    /\ collectors = built[p][1]
    /\ calls[p][2].kind = "station"
    /\ calls[p][2].client = clients - 1

(***************************************************************************)
(* C28.  After a Collect whose login has succeeded (the latest call of     *)
(* clientFn was made by a Collect and returned a client), a Collect in     *)
(* which every fetch succeeds calls both collectors on that client, does   *)
(* not call clientFn, sends no placeholder, and sends the complete sample  *)
(* set of every configured site for both collectors.                       *)
(***************************************************************************)
C28_HealthyScrapeAfterLogin ==
  \A p \in Procs :
    (/\ pc[p] = "cUnlock"
     /\ clients > 1
     /\ lastLogin = "ok"
     /\ \A i \in DOMAIN calls[p] : ~Failed(calls[p][i]))
      => /\ logins[p] = << >>
         /\ \A m \in Sent(p) : m.valid
         /\ \A kind \in {"device", "station"} :
              \E i \in DOMAIN calls[p] :
                /\ calls[p][i].kind = kind
                /\ calls[p][i].client = clients
                /\ \A s \in 1..NSites :
                     CompleteKeys(kind, calls[p][i].rs[s].data)
                       \subseteq SiteKeys(p, i, s)

C28_Witness ==
  \E p \in Procs :
    /\ pc[p] = "cUnlock"
    /\ clients = MaxClients + 1
    /\ lastLogin = "ok"
    /\ logins[p] = << >>
    /\ Len(calls[p]) = 2
    /\ \A i \in DOMAIN calls[p] :
         /\ ~Failed(calls[p][i])
         /\ calls[p][i].client = clients
         /\ \A s \in 1..NSites : Cardinality(SiteKeys(p, i, s)) > 1

\* The keys of the valid samples the call has sent for site s of the job.
JobSiteKeys(s) ==
  {SampleKey(m) :
     m \in {x \in Emitted :
              x.valid /\ x.labels[1] = job.sites[s].Description}}

(***************************************************************************)
(* C29.  When the station collector's fetch of site k fails (the request   *)
(* or the decoding of its answer), the sites fetched are 1..k, no site     *)
(* after k has a sample, every site before k has its complete sample set   *)
(* in what is sent, and what is sent ends with the one placeholder of the  *)
(* call, which carries the descriptor of unifi_stations for every k.       *)
(***************************************************************************)
C29_StationFailureAtSiteK ==
  (job.op = "station" /\ result.outcome = "err") =>
    LET k == Len(job.rs)
        placeholders == {j \in DOMAIN result.out : ~result.out[j].valid}
    IN /\ job.rs[k].err # "nil"
       /\ result.fetches = [i \in 1..k |-> i]
       /\ \A s \in k..Len(job.sites) : JobSiteKeys(s) = {}
       /\ \A s \in 1..(k - 1) :
            JobSiteKeys(s) = CompleteKeys("station", job.rs[s].data)
       /\ placeholders = {Len(result.out)}
       /\ result.out[Len(result.out)].desc = "unifi_stations"
       /\ result.out[Len(result.out)].err = job.rs[k].err

C29_Witness ==
  /\ job.op = "station"
  /\ result.outcome = "err"
  /\ Len(job.rs) = 1
  /\ Len(job.answers) = 2
  /\ job.answers[1].fail = "nil"
  /\ job.answers[2].fail = "nil"
  /\ Len(job.answers[2].body) = MaxStations
  /\ ClientStations(job.answers[2]).err = "nil"
  /\ Len(result.out) = 1

\* The lower-case letter of each upper-case letter of DescChars, and the
\* characters siteDescription drops.
LowerOf == [c \in DescChars \cup {"a", "r", "q", "u", "x", "b"} |->
              IF c = "F" THEN "f"
              ELSE IF c = "B" THEN "b"
              ELSE IF c = "Eacute" THEN "eacute"
              ELSE c]

Dropped == {" ", "-", "_", "."}

KeptChar(c) == c \notin Dropped

(***************************************************************************)
(* C30.  siteDescription returns the characters of its input that are not  *)
(* a space, hyphen, underscore or full stop, in their order, each upper-   *)
(* case letter replaced by its lower-case letter ("Foo bar  Baz - _ .qux"  *)
(* gives "foobarbazqux"); applied to its result it returns the result.     *)
(***************************************************************************)
C30_SiteDescription ==
  job.op = "siteDescription" =>
    /\ result.value
         = SelectSeq([i \in DOMAIN job.desc |-> LowerOf[job.desc[i]]],
                     KeptChar)
    /\ result.again = result.value
    /\ job.desc = <<"F", "o", "o", " ", "b", "a", "r", " ", " ", "B", "a",
                    "z", " ", "-", " ", "_", " ", ".", "q", "u", "x">>
         => result.value = <<"f", "o", "o", "b", "a", "r", "b", "a", "z",
                             "q", "u", "x">>

C30_Witness ==
  /\ job.op = "siteDescription"
  /\ Len(job.desc) > MaxDescLen
  /\ \E i \in DOMAIN job.desc : job.desc[i] = "."
  /\ \E i \in DOMAIN job.desc : job.desc[i] = "_"
  /\ result.value = <<"f", "o", "o", "b", "a", "r", "b", "a", "z", "q", "u",
                      "x">>
  /\ result.again = result.value

====
